---------------------------- MODULE Spec2Model ----------------------------
(***************************************************************************)
(* Order aggregation and box allocation of the fulfilment dashboard        *)
(* (modules/data_processing.py).                                           *)
(*                                                                         *)
(* Text is modelled at character level: a text is a sequence of one-       *)
(* character strings.  The module is kept in ASCII, so every Hangul        *)
(* syllable is written as its romanisation and stands for ONE character:   *)
(*   단 dan  호 ho  박 bak  식 sik  혜 hye  일 il  반 ban  수 su  정 jeong *)
(*   과 gwa  쌀 ssal  요 yo  거 geo  트 teu  플 peul  레 re  인 in         *)
(*   기 gi  타 ta  개 gae  병 byeong  용 yong  량 ryang  서 seo  로 ro     *)
(*   진 jin  하 ha  고 go  깊 gip  은 eun  밥 bap  알 al  없 eop  는 neun *)
(* Latin letters, digits and punctuation are themselves.  A missing cell   *)
(* (pandas NaN) is the one-element sequence <<"NaN">>.                     *)
(***************************************************************************)
EXTENDS Integers, Sequences, FiniteSets, TLC

VARIABLES
    quantities,     \* calculate_box_for_order's argument / calculate_box_requirements' local
    box_result,     \* the box decision of the last call
    order_products, \* get_product_quantities' argument
    text,           \* argument of the text functions under test
    product,        \* result of extract_product_from_option / _from_name
    option_info,    \* result of parse_option_info: <<multiplier, capacity>>
    called,         \* which text function produced product / option_info
    arg_for_box,    \* standardize_capacity's second argument
    df,             \* the cleaned rows of one upload
    pc,             \* position of the upload pass
    index,          \* row index of the running loop (rows 1..index are done)
    results,        \* process_unified_file: product key -> total quantity
    orders,         \* group_orders_by_recipient: insertion-ordered recipient -> products
    total_boxes,    \* calculate_box_requirements: box -> count
    review_orders,  \* calculate_box_requirements: the review list
    final_product,  \* loop local: category of the row just processed
    total_quantity, \* loop local: effective quantity of the row just processed
    key,            \* loop local: product key of the row just processed
    save_calls,     \* the calls of save_to_github so far: file, data, outcome
    store,          \* the remote store: file -> sha and decrypted content
    sess,           \* the stock tab (tab3) of each browser session: a script run
    now,            \* the clock datetime.now(KST) reads, in seconds
    uploaded_file,  \* the rows of the uploaded workbook as read_excel returns them
    usb_file,       \* the yearly customer history workbooks of the USB drive
    append_calls    \* the calls of append_to_usb_customer_file so far

vars == <<quantities, box_result, order_products, text, product, option_info, called, arg_for_box, df, pc, index,
          results, orders, total_boxes, review_orders, final_product,
          total_quantity, key, save_calls, store, sess, now,
          uploaded_file, usb_file, append_calls>>

----------------------------------------------------------------------------
(* Bounds *)

MaxQty == 11
MaxWords == 3
\* largest quantity of a product key in get_product_quantities' argument
MaxKeyQty == 2

\* largest number of orders in one call of append_to_usb_customer_file
MaxBatch == 2
\* number of calls of append_to_usb_customer_file
MaxAppends == 2

\* largest quantity typed into the stock form
MaxStock == 3
\* number of script runs of the stock tab
MaxClock == 2
\* save_to_github: max_retries
MaxRetries == 3

MaxRows == 3

----------------------------------------------------------------------------
(* Characters and strings *)

NaN == <<"NaN">>

isna(x) == x = NaN

Digits == {"0", "1", "2", "3", "4", "5", "6", "7", "8", "9"}

DigitVal(c) ==
    CASE c = "0" -> 0 [] c = "1" -> 1 [] c = "2" -> 2 [] c = "3" -> 3
      [] c = "4" -> 4 [] c = "5" -> 5 [] c = "6" -> 6 [] c = "7" -> 7
      [] c = "8" -> 8 [] c = "9" -> 9

\* int(s) for a string of digits
RECURSIVE ToInt(_)
ToInt(s) ==
    IF s = <<>> THEN 0
    ELSE 10 * ToInt(SubSeq(s, 1, Len(s) - 1)) + DigitVal(s[Len(s)])

\* str.lower(): only the Latin letters of the alphabet have a case
LowerChar(c) ==
    CASE c = "L" -> "l" [] c = "M" -> "m" [] OTHER -> c

Lower(s) == [i \in 1..Len(s) |-> LowerChar(s[i])]

\* s[i:].startswith(w), i counted from 1
StartsAt(s, i, w) ==
    /\ i >= 1
    /\ i + Len(w) - 1 <= Len(s)
    /\ \A j \in 1..Len(w) : s[i + j - 1] = w[j]

\* the Python test  w in s
Contains(s, w) == \E i \in 1..(Len(s) + 1) : StartsAt(s, i, w)

\* "".join(ws): the text made of the words ws
RECURSIVE Flatten(_)
Flatten(ws) == IF ws = <<>> THEN <<>> ELSE Head(ws) \o Flatten(Tail(ws))

IsSpace(c) == c = " "

\* first index >= i of s that is not whitespace (Len(s)+1 if none): greedy \s*
RECURSIVE SkipSpaces(_, _)
SkipSpaces(s, i) ==
    IF i <= Len(s) /\ IsSpace(s[i]) THEN SkipSpaces(s, i + 1) ELSE i

\* first index >= i of s that is not a digit (Len(s)+1 if none): greedy \d*
RECURSIVE SkipDigits(_, _)
SkipDigits(s, i) ==
    IF i <= Len(s) /\ s[i] \in Digits THEN SkipDigits(s, i + 1) ELSE i

\* str.strip()
RECURSIVE Strip(_)
Strip(s) ==
    IF s = <<>> THEN s
    ELSE IF IsSpace(s[1]) THEN Strip(Tail(s))
    ELSE IF IsSpace(s[Len(s)]) THEN Strip(SubSeq(s, 1, Len(s) - 1))
    ELSE s

----------------------------------------------------------------------------
(* Product categories (as the strings the code returns) and keywords *)

Danhobak == <<"dan", "ho", "bak">>                          \* 단호박
Sikhye == <<"sik", "hye">>                                  \* 식혜
DanhobakSikhye == Danhobak \o Sikhye                        \* 단호박식혜
IlbanSikhye == <<"il", "ban">> \o Sikhye                    \* 일반식혜
Sujeonggwa == <<"su", "jeong", "gwa">>                      \* 수정과
Yogurt == <<"yo", "geo", "teu">>                            \* 요거트
SsalYogurt == <<"ssal">> \o Yogurt                          \* 쌀요거트
Plain == <<"peul", "re", "in">>                             \* 플레인
PlainSsalYogurt == Plain \o <<" ">> \o SsalYogurt           \* 플레인 쌀요거트
Gita == <<"gi", "ta">>                                      \* 기타
JinhagoGipeunSikhye ==                                      \* 진하고 깊은 식혜
    <<"jin", "ha", "go", " ", "gip", "eun", " ">> \o Sikhye

----------------------------------------------------------------------------
(* extract_product_from_option *)

\* variant: 수정과 and the yogurt keywords tested before 식혜
extract_product_from_option_SujeonggwaFirst(option_text) ==
    IF isna(option_text) THEN Gita
    ELSE LET t == Lower(option_text) IN
         IF Contains(t, DanhobakSikhye) THEN DanhobakSikhye
         ELSE IF Contains(t, Sujeonggwa) THEN Sujeonggwa
         ELSE IF Contains(t, SsalYogurt) \/ Contains(t, Yogurt) \/ Contains(t, Plain)
              THEN PlainSsalYogurt
         ELSE IF Contains(t, IlbanSikhye)
                 \/ (Contains(t, Sikhye) /\ ~Contains(t, Danhobak))
              THEN Sikhye
         ELSE Gita

extract_product_from_option(option_text) ==
    IF isna(option_text) THEN Gita
    ELSE LET t == Lower(option_text) IN
         IF Contains(t, DanhobakSikhye) THEN DanhobakSikhye
         ELSE IF Contains(t, IlbanSikhye)
                 \/ (Contains(t, Sikhye) /\ ~Contains(t, Danhobak))
              THEN Sikhye
         ELSE IF Contains(t, Sujeonggwa) THEN Sujeonggwa
         ELSE IF Contains(t, SsalYogurt) \/ Contains(t, Yogurt) \/ Contains(t, Plain)
              THEN PlainSsalYogurt
         ELSE Gita

----------------------------------------------------------------------------
(* extract_product_from_name: its regular expression *)

NoMatch == [ok |-> FALSE, g1 |-> <<>>, g2 |-> <<>>]

\* first index >= i of s holding character c (Len(s)+1 if none)
RECURSIVE FindChar(_, _, _)
FindChar(s, i, c) ==
    IF i > Len(s) \/ s[i] = c THEN i ELSE FindChar(s, i + 1, c)

\* the regular expression  \[서로\s+([^\]]+)\]  tried at position i.
\* \s+ is greedy; when the bracket closes right after the whitespace it gives
\* its last blank back to the group (possible only with two blanks or more).
BracketAt(s, i) ==
    IF ~(StartsAt(s, i, <<"[", "seo", "ro">>) /\ i + 3 <= Len(s) /\ IsSpace(s[i + 3]))
    THEN NoMatch
    ELSE LET p == SkipSpaces(s, i + 3)
             q == FindChar(s, p, "]")
         IN  IF q > Len(s) THEN NoMatch
             ELSE IF q > p THEN [ok |-> TRUE, g1 |-> SubSeq(s, p, q - 1), g2 |-> <<>>]
             ELSE IF p - (i + 3) >= 2 THEN [ok |-> TRUE, g1 |-> <<" ">>, g2 |-> <<>>]
             ELSE NoMatch

----------------------------------------------------------------------------
(* parse_option_info *)

Gae == "gae"                                                \* 개
Byeong == "byeong"                                          \* 병
Yongryang == <<"yong", "ryang">>                            \* 용량

\* (?:ml|L) at position p; with ignorecase also mL, Ml, ML and l.
\* Returns the index after the unit, 0 if there is none.
UnitEnd(s, p, ignorecase) ==
    LET t == IF ignorecase THEN Lower(s) ELSE s
        L == IF ignorecase THEN "l" ELSE "L"
    IN  IF StartsAt(t, p, <<"m", "l">>) THEN p + 2
        ELSE IF StartsAt(t, p, <<L>>) THEN p + 1
        ELSE 0

\* \d+(?:\.\d+)?(?:ml|L) at position i: the index after the token, 0 if none.
\* Every quantifier is greedy and no shorter choice can succeed: a shorter
\* digit run is followed by a digit, a skipped fraction by the dot.
CapEnd(s, i, ignorecase) ==
    LET d == SkipDigits(s, i)
        f == IF d <= Len(s) /\ s[d] = "." THEN SkipDigits(s, d + 1) ELSE d
        p == IF f > d + 1 THEN f ELSE d
    IN  IF d = i THEN 0 ELSE UnitEnd(s, p, ignorecase)

\* (\d+)개,\s*(CAP)
Pattern1At(s, i, ignorecase) ==
    LET d == SkipDigits(s, i)
        j == SkipSpaces(s, d + 2)
        e == CapEnd(s, j, ignorecase)
    IN  IF d > i /\ StartsAt(s, d, <<Gae, ",">>) /\ e # 0
        THEN [ok |-> TRUE, g1 |-> SubSeq(s, i, d - 1), g2 |-> SubSeq(s, j, e - 1)]
        ELSE NoMatch

\* (\d+),\s*(CAP)
Pattern2At(s, i, ignorecase) ==
    LET d == SkipDigits(s, i)
        j == SkipSpaces(s, d + 1)
        e == CapEnd(s, j, ignorecase)
    IN  IF d > i /\ StartsAt(s, d, <<",">>) /\ e # 0
        THEN [ok |-> TRUE, g1 |-> SubSeq(s, i, d - 1), g2 |-> SubSeq(s, j, e - 1)]
        ELSE NoMatch

\* (CAP)\s*(\d+)병
Pattern4At(s, i, ignorecase) ==
    LET e == CapEnd(s, i, ignorecase)
        j == SkipSpaces(s, e)
        d == SkipDigits(s, j)
    IN  IF e # 0 /\ d > j /\ StartsAt(s, d, <<Byeong>>)
        THEN [ok |-> TRUE, g1 |-> SubSeq(s, i, e - 1), g2 |-> SubSeq(s, j, d - 1)]
        ELSE NoMatch

\* 용량\s*:\s*(CAP)\s*(\d+)병
Pattern3At(s, i, ignorecase) ==
    LET c == SkipSpaces(s, i + 2)
        j == SkipSpaces(s, c + 1)
    IN  IF StartsAt(s, i, Yongryang) /\ StartsAt(s, c, <<":">>)
        THEN Pattern4At(s, j, ignorecase)
        ELSE NoMatch

\* (CAP)
Pattern5At(s, i, ignorecase) ==
    LET e == CapEnd(s, i, ignorecase)
    IN  IF e # 0 THEN [ok |-> TRUE, g1 |-> SubSeq(s, i, e - 1), g2 |-> <<>>]
        ELSE NoMatch

\* re.search, given the match tried at every position of the text: the match
\* at the leftmost position that has one
Search(tried) ==
    LET hits == {i \in DOMAIN tried : tried[i].ok}
    IN  IF hits = {} THEN NoMatch
        ELSE tried[CHOOSE i \in hits : \A j \in hits : i <= j]

SearchBracket(s) == Search([i \in 1..Len(s) |-> BracketAt(s, i)])
SearchPattern1(s, ignorecase) == Search([i \in 1..Len(s) |-> Pattern1At(s, i, ignorecase)])
SearchPattern2(s, ignorecase) == Search([i \in 1..Len(s) |-> Pattern2At(s, i, ignorecase)])
SearchPattern3(s, ignorecase) == Search([i \in 1..Len(s) |-> Pattern3At(s, i, ignorecase)])
SearchPattern4(s, ignorecase) == Search([i \in 1..Len(s) |-> Pattern4At(s, i, ignorecase)])
SearchPattern5(s, ignorecase) == Search([i \in 1..Len(s) |-> Pattern5At(s, i, ignorecase)])

\* variant: the bare capacity (pattern 5) tried before pattern 4
parse_option_info_BareCapacityFirst(option_text) ==
    IF isna(option_text) THEN <<1, <<>>>>
    ELSE LET pattern1 == SearchPattern1(option_text, FALSE)
             pattern2 == SearchPattern2(option_text, FALSE)
             pattern3 == SearchPattern3(option_text, FALSE)
             pattern4 == SearchPattern4(option_text, FALSE)
             capacity_match == SearchPattern5(option_text, FALSE)
         IN  IF pattern1.ok THEN <<ToInt(pattern1.g1), pattern1.g2>>
             ELSE IF pattern2.ok THEN <<ToInt(pattern2.g1), pattern2.g2>>
             ELSE IF pattern3.ok THEN <<ToInt(pattern3.g2), pattern3.g1>>
             ELSE IF capacity_match.ok THEN <<1, capacity_match.g1>>
             ELSE IF pattern4.ok THEN <<ToInt(pattern4.g2), pattern4.g1>>
             ELSE <<1, <<>>>>

\* The code compiles its patterns without re.IGNORECASE.
parse_option_info(option_text) ==
    IF isna(option_text) THEN <<1, <<>>>>
    ELSE LET pattern1 == SearchPattern1(option_text, FALSE)
             pattern2 == SearchPattern2(option_text, FALSE)
             pattern3 == SearchPattern3(option_text, FALSE)
             pattern4 == SearchPattern4(option_text, FALSE)
             capacity_match == SearchPattern5(option_text, FALSE)
         IN  IF pattern1.ok THEN <<ToInt(pattern1.g1), pattern1.g2>>
             ELSE IF pattern2.ok THEN <<ToInt(pattern2.g1), pattern2.g2>>
             ELSE IF pattern3.ok THEN <<ToInt(pattern3.g2), pattern3.g1>>
             ELSE IF pattern4.ok THEN <<ToInt(pattern4.g2), pattern4.g1>>
             ELSE IF capacity_match.ok THEN <<1, capacity_match.g1>>
             ELSE <<1, <<>>>>

----------------------------------------------------------------------------
(* extract_product_from_name, continued *)

extract_product_from_name(product_name) ==
    IF isna(product_name) THEN Gita
    ELSE LET name == Lower(product_name)
             bracket_match == SearchBracket(name)
             product_key == Strip(bracket_match.g1)
         IN  IF bracket_match.ok /\ Contains(product_key, DanhobakSikhye)
                 THEN DanhobakSikhye
             ELSE IF bracket_match.ok
                     /\ (Contains(product_key, JinhagoGipeunSikhye)
                         \/ Contains(product_key, Sikhye))
                 THEN Sikhye
             ELSE IF bracket_match.ok /\ Contains(product_key, Sujeonggwa)
                 THEN Sujeonggwa
             ELSE IF bracket_match.ok /\ Contains(product_key, SsalYogurt)
                 THEN PlainSsalYogurt
             ELSE IF Contains(name, SsalYogurt) \/ Contains(name, Yogurt)
                     \/ Contains(name, Plain)
                 THEN PlainSsalYogurt
             ELSE Gita

----------------------------------------------------------------------------
(* standardize_capacity *)

Cap15L == <<"1", ".", "5", "L">>
Cap1L == <<"1", "L">>
Cap500ml == <<"5", "0", "0", "m", "l">>
Cap240ml == <<"2", "4", "0", "m", "l">>
Cap200ml == <<"2", "0", "0", "m", "l">>

\* variant: 200ml folded into 240ml whatever for_box is
standardize_capacity_AlwaysFold(capacity, for_box) ==
    IF capacity = <<>> THEN <<>>
    ELSE LET c == Lower(capacity) IN
         IF StartsAt(c, 1, <<"1", ".", "5", "l">>) THEN Cap15L
         ELSE IF StartsAt(c, 1, <<"1", "l">>)
                 \/ StartsAt(c, 1, <<"1", "0", "0", "0", "m", "l">>) THEN Cap1L
         ELSE IF StartsAt(c, 1, <<"5", "0", "0", "m", "l">>) THEN Cap500ml
         ELSE IF StartsAt(c, 1, <<"2", "4", "0", "m", "l">>) THEN Cap240ml
         ELSE IF StartsAt(c, 1, <<"2", "0", "0", "m", "l">>) THEN Cap240ml
         ELSE c

\* re.match anchors at the start of the lowered token only
standardize_capacity(capacity, for_box) ==
    IF capacity = <<>> THEN <<>>
    ELSE LET c == Lower(capacity) IN
         IF StartsAt(c, 1, <<"1", ".", "5", "l">>) THEN Cap15L
         ELSE IF StartsAt(c, 1, <<"1", "l">>)
                 \/ StartsAt(c, 1, <<"1", "0", "0", "0", "m", "l">>) THEN Cap1L
         ELSE IF StartsAt(c, 1, <<"5", "0", "0", "m", "l">>) THEN Cap500ml
         ELSE IF StartsAt(c, 1, <<"2", "4", "0", "m", "l">>) THEN Cap240ml
         ELSE IF StartsAt(c, 1, <<"2", "0", "0", "m", "l">>)
              THEN (IF for_box THEN Cap240ml ELSE Cap200ml)
         ELSE c

standardize_capacity_for_box(capacity) == standardize_capacity(capacity, TRUE)

----------------------------------------------------------------------------
(* Rows: the columns 상품이름 (sangpum_ireum), 옵션이름 (opsyeon_ireum),     *)
(* 상품수량 (sangpum_suryang) and 수취인이름 (suchwiin_ireum).  A quantity    *)
(* cell is a number or a cell int() rejects with ValueError (NaN, text).   *)

IntCell(n) == [kind |-> "int", value |-> n]
NaNCell == [kind |-> "nan", value |-> 0]
\* float infinity: int() raises OverflowError, which the except clause does not name
InfCell == [kind |-> "inf", value |-> 0]

\* try: int(cell)  except (ValueError, TypeError): 1
base_quantity_of(cell) == IF cell.kind = "int" THEN cell.value ELSE 1

\* int(row.get('상품수량', 1)) raises past the except clause
Raises(row) == row.sangpum_suryang.kind = "inf"

\* 수취인이름 cells: a name, a NaN float object, or no such column.  NaN is not
\* equal to itself, so as a dict key a NaN object equals only the same object:
\* NaNShared is the one object several rows may hold, NaNObjects[i] an object
\* only row i holds.
NaNShared == "nan"
NaNObjects == <<"nan@1", "nan@2", "nan@3", "nan@4", "nan@5">>
Absent == "absent"
Unknown == "al su eopseum"                                  \* 알 수 없음

\* row.get('수취인이름', '알 수 없음')
recipient_of(row) == IF row.suchwiin_ireum = Absent THEN Unknown ELSE row.suchwiin_ireum

\* The cells of the 옵션이름 and 상품이름 columns of the uploads
TagSujeonggwa == <<"[", "seo", "ro", " ">> \o Sujeonggwa \o <<"]">>   \* [서로 수정과]
OptSikhye1L == Sikhye \o <<" ">> \o Cap1L                              \* 식혜 1L
OptSikhye200ml == Sikhye \o <<" ">> \o Cap200ml                        \* 식혜 200ml
Opt5Gae240ml == <<"5", Gae, ",", " ">> \o Cap240ml                     \* 5개, 240ml
Opt2Comma500ml == <<"2", ",", " ">> \o Cap500ml                        \* 2, 500ml
Opt0Gae240ml == <<"0", Gae, ",", " ">> \o Cap240ml                     \* 0개, 240ml

OptionCells ==
    {OptSikhye1L, OptSikhye200ml, Opt5Gae240ml, Opt2Comma500ml, Opt0Gae240ml, <<>>, NaN}
NameCells == {TagSujeonggwa, DanhobakSikhye, Sikhye, <<>>, NaN}

\* the three text functions on these cells, each cell evaluated once
option_product_of == [t \in OptionCells |-> extract_product_from_option(t)]
name_product_of == [t \in NameCells |-> extract_product_from_name(t)]
option_info_of == [t \in OptionCells |-> parse_option_info(t)]

\* variant: the product-name category taken first
final_product_of_NameFirst(row) ==
    LET option_product == option_product_of[row.opsyeon_ireum]
        name_product == name_product_of[row.sangpum_ireum]
    IN  IF name_product # Gita THEN name_product ELSE option_product

\* option_product if option_product != "기타" else name_product
final_product_of(row) ==
    LET option_product == option_product_of[row.opsyeon_ireum]
        name_product == name_product_of[row.sangpum_ireum]
    IN  IF option_product # Gita THEN option_product ELSE name_product

\* base_quantity * option_quantity
total_quantity_of(row) ==
    base_quantity_of(row.sangpum_suryang) * option_info_of[row.opsyeon_ireum][1]

\* f"{final_product} {standardized_capacity}", or final_product alone
product_key_of(row, for_box) ==
    LET capacity == option_info_of[row.opsyeon_ireum][2]
        standardized_capacity == standardize_capacity(capacity, for_box)
    IN  IF standardized_capacity # <<>>
        THEN final_product_of(row) \o <<" ">> \o standardized_capacity
        ELSE final_product_of(row)

----------------------------------------------------------------------------
(* Dictionaries: a dict is a function on the set of its keys *)

EmptyDict == [k \in {} |-> 0]

Get(d, k, default) == IF k \in DOMAIN d THEN d[k] ELSE default

Put(d, k, v) == [x \in (DOMAIN d) \cup {k} |-> IF x = k THEN v ELSE d[x]]

RECURSIVE SumOver(_, _)
SumOver(d, S) ==
    IF S = {} THEN 0
    ELSE LET k == CHOOSE x \in S : TRUE IN d[k] + SumOver(d, S \ {k})

SumValues(d) == SumOver(d, DOMAIN d)

----------------------------------------------------------------------------
(* get_product_quantities *)

NoBucket == <<>>

\* variant: a raw 200ml key is not folded into the 240ml bucket
bucket_of_NoFold(product_key) ==
    IF Contains(product_key, Cap15L) THEN Cap15L
    ELSE IF Contains(product_key, Cap1L) THEN Cap1L
    ELSE IF Contains(product_key, Cap500ml) THEN Cap500ml
    ELSE IF Contains(product_key, Cap240ml) THEN Cap240ml
    ELSE NoBucket

\* the if / elif chain of substring tests on one product key
bucket_of(product_key) ==
    IF Contains(product_key, Cap15L) THEN Cap15L
    ELSE IF Contains(product_key, Cap1L) THEN Cap1L
    ELSE IF Contains(product_key, Cap500ml) THEN Cap500ml
    ELSE IF Contains(product_key, Cap240ml) THEN Cap240ml
    ELSE IF Contains(product_key, Cap200ml) THEN Cap240ml
    ELSE NoBucket

\* variant: a key that falls into no bucket is counted as 240ml
get_product_quantities_CountAll(products) ==
    LET bucket(k) == IF bucket_of(k) = NoBucket THEN Cap240ml ELSE bucket_of(k)
    IN  [c \in {bucket(k) : k \in DOMAIN products} |->
            SumOver(products, {k \in DOMAIN products : bucket(k) = c})]

\* a defaultdict(int): only the buckets some key fell into are present
get_product_quantities(products) ==
    LET touched == {bucket_of(k) : k \in DOMAIN products} \ {NoBucket}
    IN  [c \in touched |->
            SumOver(products, {k \in DOMAIN products : bucket_of(k) = c})]

----------------------------------------------------------------------------
(* calculate_box_for_order *)

BoxA == "bakseu A"                                          \* 박스 A
BoxB == "bakseu B"
BoxC == "bakseu C"
BoxD == "bakseu D"
BoxE == "bakseu E"
BoxF == "bakseu F"
Review == "geomto piryo"                                    \* 검토 필요
NoReturn == "none"

Boxes == {BoxA, BoxB, BoxC, BoxD, BoxE, BoxF}

\* a rule table whose B row for 500ml reaches 10 (box C never chosen)
box_rule_NoBoxC(capacity, qty) ==
    IF capacity = Cap1L /\ 1 <= qty /\ qty <= 2 THEN BoxA
    ELSE IF capacity = Cap500ml /\ 1 <= qty /\ qty <= 3 THEN BoxA
    ELSE IF capacity = Cap240ml /\ 1 <= qty /\ qty <= 5 THEN BoxA
    ELSE IF capacity = Cap1L /\ 3 <= qty /\ qty <= 4 THEN BoxB
    ELSE IF capacity = Cap500ml /\ 4 <= qty /\ qty <= 10 THEN BoxB
    ELSE IF capacity = Cap240ml /\ 6 <= qty /\ qty <= 10 THEN BoxB
    ELSE IF capacity = Cap500ml /\ qty = 10 THEN BoxC
    ELSE IF capacity = Cap1L /\ 5 <= qty /\ qty <= 6 THEN BoxD
    ELSE IF capacity = Cap15L /\ 3 <= qty /\ qty <= 4 THEN BoxE
    ELSE IF capacity = Cap15L /\ 1 <= qty /\ qty <= 2 THEN BoxF
    ELSE NoReturn

\* the if / elif chain of the loop body, for one item with qty > 0
box_rule(capacity, qty) ==
    IF capacity = Cap1L /\ 1 <= qty /\ qty <= 2 THEN BoxA
    ELSE IF capacity = Cap500ml /\ 1 <= qty /\ qty <= 3 THEN BoxA
    ELSE IF capacity = Cap240ml /\ 1 <= qty /\ qty <= 5 THEN BoxA
    ELSE IF capacity = Cap1L /\ 3 <= qty /\ qty <= 4 THEN BoxB
    ELSE IF capacity = Cap500ml /\ 4 <= qty /\ qty <= 6 THEN BoxB
    ELSE IF capacity = Cap240ml /\ 6 <= qty /\ qty <= 10 THEN BoxB
    ELSE IF capacity = Cap500ml /\ qty = 10 THEN BoxC
    ELSE IF capacity = Cap1L /\ 5 <= qty /\ qty <= 6 THEN BoxD
    ELSE IF capacity = Cap15L /\ 3 <= qty /\ qty <= 4 THEN BoxE
    ELSE IF capacity = Cap15L /\ 1 <= qty /\ qty <= 2 THEN BoxF
    ELSE NoReturn

\* Step 1 counts the items with qty > 0; step 2 returns at the first item with
\* qty > 0 that a rule matches (there is at most one item with qty > 0 then);
\* step 3 is the fall-through.
calculate_box_for_order(q) ==
    LET non_zero_capacities == {cap \in DOMAIN q : q[cap] > 0}
        returning == {cap \in non_zero_capacities : box_rule(cap, q[cap]) # NoReturn}
    IN  IF Cardinality(non_zero_capacities) > 1 THEN Review
        ELSE IF returning # {}
             THEN LET cap == CHOOSE c \in returning : TRUE IN box_rule(cap, q[cap])
        ELSE Review

----------------------------------------------------------------------------
(* The remote store (modules/storage.py): one file per aggregate, each with *)
(* the sha of its current version (0: no such file) and its content.       *)

ShipmentFile == "shipment"                                  \* SHIPMENT_FILE_PATH
BoxFile == "box"                                            \* BOX_FILE_PATH
StockFile == "stock"                                        \* STOCK_FILE_PATH
Files == {ShipmentFile, BoxFile, StockFile}

EmptyStore == [f \in Files |-> [sha |-> 0, data |-> EmptyDict]]

\* save_to_github run without interference from another session: the call is
\* recorded, and the file is replaced by data when a PUT is answered 200/201
\* within the three attempts (ok), left as it is otherwise
SaveToGithub(data, file_path, ok) ==
    /\ save_calls' = Append(save_calls, [file |-> file_path, data |-> data, ok |-> ok])
    /\ store' = IF ok
                THEN [store EXCEPT ![file_path] = [sha |-> @.sha + 1, data |-> data]]
                ELSE store
    /\ UNCHANGED <<sess, now>>

\* the browser sessions that may have the stock tab open
Sessions == {1, 2}

\* sha of a file that does not exist; payload without "sha"
NoSha == 0

\* Python's None where the model holds a number
None == 0

\* the locals of one script run of tab3 and of the save_to_github call in it
NewSession ==
    [ pc |-> "idle",
      admin_mode |-> FALSE,              \* st.session_state.admin_mode
      admin_password |-> <<>>,           \* st.session_state.admin_password
      stock_results |-> EmptyDict,       \* load_stock_data()[0]
      shipment_results |-> EmptyDict,    \* load_shipment_data()[0]
      today |-> 0,                       \* datetime.now(KST) of the run
      button |-> "none",                 \* the button whose handler runs
      current_stock |-> EmptyDict,       \* the data handed to save_stock_data
      sha |-> NoSha,                     \* save_to_github: sha
      attempt |-> 0,                     \* save_to_github: attempt
      warnings |-> <<>>,                 \* the st.warning texts of the call
      encrypted_data |-> "unset",        \* save_to_github: encrypted_data
      last_update |-> None,              \* load_from_github(...)[1]
      requests |-> <<>>,                 \* the requests and sleeps of the call
      save_success |-> "none" ]          \* the value save_stock_data returned

\* a session that never opens the stock tab
NoSession == [NewSession EXCEPT !.pc = "off"]

----------------------------------------------------------------------------
(* Values of the variables a specification does not use *)

TextIdle ==
    /\ text = <<>>
    /\ product = <<>>
    /\ option_info = <<>>
    /\ called = "none"
    /\ arg_for_box = FALSE

BoxIdle ==
    /\ quantities = EmptyDict
    /\ order_products = EmptyDict
    /\ box_result = NoReturn

UploadIdle ==
    /\ df = <<>>
    /\ index = 0
    /\ results = EmptyDict
    /\ orders = <<>>
    /\ total_boxes = EmptyDict
    /\ review_orders = <<>>
    /\ final_product = <<>>
    /\ total_quantity = 0
    /\ key = <<>>

StoreIdle ==
    /\ save_calls = <<>>
    /\ store = EmptyStore
    /\ sess = [s \in Sessions |-> NoSession]
    /\ now = 0

\* no upload of a workbook and no USB drive are involved
CustomerIdle ==
    /\ uploaded_file = <<>>
    /\ usb_file = <<>>
    /\ append_calls = <<>>

customerVars == <<uploaded_file, usb_file, append_calls>>
textVars == <<text, product, option_info, called, arg_for_box>>
storeVars == <<save_calls, store, sess, now>>
boxVars == <<quantities, box_result, order_products>>
uploadVars == <<df, index, results, orders, total_boxes, review_orders,
                final_product, total_quantity, key>>

\* all sequences of at most n elements of S
SeqsUpTo(S, n) == UNION {[1..m -> S] : m \in 0..n}

----------------------------------------------------------------------------
(* SpecBox: calculate_box_for_order on every vector over the four buckets.  *)
(* A quantity is a sum of int(상품수량) * multiplier, so it may be zero or   *)
(* negative as well.                                                       *)

Capacities == {Cap15L, Cap1L, Cap500ml, Cap240ml}

InitBox ==
    /\ quantities \in [Capacities -> (-1)..MaxQty]
    /\ order_products = EmptyDict
    /\ box_result = NoReturn
    /\ pc = "box_call"
    /\ TextIdle
    /\ CustomerIdle
    /\ UploadIdle
    /\ StoreIdle

CalculateBoxForOrder ==
    /\ pc = "box_call"
    /\ box_result' = calculate_box_for_order(quantities)
    /\ pc' = "box_returned"
    /\ UNCHANGED <<quantities, order_products, textVars, customerVars, uploadVars, storeVars>>

NextBox == CalculateBoxForOrder

SpecBox == InitBox /\ [][NextBox]_vars

----------------------------------------------------------------------------
(* SpecBuckets: get_product_quantities on the product mappings of one       *)
(* recipient: keys of every canonical capacity, a raw 200ml key, a key      *)
(* without capacity and a key with a passed-through capacity token.         *)

BucketKeys ==
    { Sikhye \o <<" ">> \o Cap15L,
      Sikhye \o <<" ">> \o Cap1L,
      DanhobakSikhye \o <<" ">> \o Cap1L,
      Sujeonggwa \o <<" ">> \o Cap500ml,
      Sikhye \o <<" ">> \o Cap240ml,
      Sikhye \o <<" ">> \o Cap200ml,
      Gita,
      Sikhye \o <<" ", "2", "l">> }

InitBuckets ==
    /\ order_products \in UNION {[K -> 1..MaxKeyQty] : K \in SUBSET BucketKeys}
    /\ quantities = EmptyDict
    /\ box_result = NoReturn
    /\ pc = "buckets_call"
    /\ TextIdle
    /\ CustomerIdle
    /\ UploadIdle
    /\ StoreIdle

GetProductQuantities ==
    /\ pc = "buckets_call"
    /\ quantities' = get_product_quantities(order_products)
    /\ pc' = "buckets_returned"
    /\ UNCHANGED <<order_products, box_result, textVars, customerVars, uploadVars, storeVars>>

NextBuckets == GetProductQuantities

SpecBuckets == InitBuckets /\ [][NextBuckets]_vars

----------------------------------------------------------------------------
(* SpecCategory: the two category extractors on bounded texts *)

CategoryWords ==
    { Danhobak, Sikhye, Sujeonggwa, Yogurt, <<"ssal">>, Plain, <<"il", "ban">>,
      <<" ">>, <<"[", "seo", "ro", " ">>, <<"]">> }

CategoryTexts == {Flatten(ws) : ws \in SeqsUpTo(CategoryWords, MaxWords)} \cup {NaN}

InitCategory ==
    /\ text \in CategoryTexts
    /\ product = <<>>
    /\ option_info = <<>>
    /\ called = "none"
    /\ arg_for_box = FALSE
    /\ pc = "text_call"
    /\ BoxIdle
    /\ UploadIdle
    /\ StoreIdle
    /\ CustomerIdle

ExtractProductFromOption ==
    /\ pc = "text_call"
    /\ product' = extract_product_from_option(text)
    /\ called' = "extract_product_from_option"
    /\ pc' = "text_returned"
    /\ UNCHANGED <<text, option_info, arg_for_box, boxVars, uploadVars, storeVars, customerVars>>

ExtractProductFromName ==
    /\ pc = "text_call"
    /\ product' = extract_product_from_name(text)
    /\ called' = "extract_product_from_name"
    /\ pc' = "text_returned"
    /\ UNCHANGED <<text, option_info, arg_for_box, boxVars, uploadVars, storeVars, customerVars>>

NextCategory == ExtractProductFromOption \/ ExtractProductFromName

SpecCategory == InitCategory /\ [][NextCategory]_vars

----------------------------------------------------------------------------
(* SpecParse: parse_option_info on bounded option texts *)

OptionWords ==
    { <<"5", Gae>>, <<"0", Gae>>, <<"2">>, <<",", " ">>,
      Cap240ml, Cap1L, Cap15L, <<"2", "4", "0", "M", "L">>, <<"1", "l">>,
      Yongryang \o <<" ", ":", " ">>, <<" ", "2", Byeong>>,
      PlainSsalYogurt \o <<" ">> }

\* longer texts in which two patterns match at different places
SampleOptionTexts ==
    { <<"2", ",", " ">> \o Cap1L \o <<" ", "5", Gae, ",", " ">> \o Cap240ml,
      Cap1L \o <<" ", "2", Byeong, " ">> \o Yongryang \o <<" ", ":", " ">>
          \o Cap15L \o <<" ", "3", Byeong>>,
      Cap500ml \o <<" ", "3", Byeong, " ", "4", ",", " ">> \o Cap1L }

OptionTexts ==
    {Flatten(ws) : ws \in SeqsUpTo(OptionWords, MaxWords)} \cup SampleOptionTexts \cup {NaN}

InitParse ==
    /\ text \in OptionTexts
    /\ product = <<>>
    /\ option_info = <<>>
    /\ called = "none"
    /\ arg_for_box = FALSE
    /\ pc = "text_call"
    /\ BoxIdle
    /\ UploadIdle
    /\ StoreIdle
    /\ CustomerIdle

ParseOptionInfo ==
    /\ pc = "text_call"
    /\ option_info' = parse_option_info(text)
    /\ called' = "parse_option_info"
    /\ pc' = "text_returned"
    /\ UNCHANGED <<text, product, arg_for_box, boxVars, uploadVars, storeVars, customerVars>>

NextParse == ParseOptionInfo

SpecParse == InitParse /\ [][NextParse]_vars

----------------------------------------------------------------------------
(* SpecCapacity: standardize_capacity on capacity tokens.  A capacity token *)
(* is digits, an optional decimal part and the unit, the unit written in    *)
(* any letter case; the empty token is what parse_option_info returns when  *)
(* no pattern matches.                                                      *)

CapacityNumbers ==
    { <<"1">>, <<"1", ".", "5">>, <<"1", "0", "0", "0">>, <<"5", "0", "0">>,
      <<"2", "4", "0">>, <<"2", "0", "0">>, <<"2">>, <<"1", "5", "0", "0">>,
      <<"1", "0">>, <<"7", "5", "0">> }

CapacityUnits ==
    { <<"m", "l">>, <<"M", "L">>, <<"M", "l">>, <<"m", "L">>, <<"L">>, <<"l">> }

CapacityTokens == {n \o u : n \in CapacityNumbers, u \in CapacityUnits} \cup {<<>>}

InitCapacity ==
    /\ text \in CapacityTokens
    /\ arg_for_box \in BOOLEAN
    /\ product = <<>>
    /\ option_info = <<>>
    /\ called = "none"
    /\ pc = "text_call"
    /\ BoxIdle
    /\ UploadIdle
    /\ StoreIdle
    /\ CustomerIdle

StandardizeCapacity ==
    /\ pc = "text_call"
    /\ called = "none"
    /\ text \in CapacityTokens
    /\ product' = standardize_capacity(text, arg_for_box)
    /\ called' = "standardize_capacity"
    /\ pc' = "text_returned"
    /\ UNCHANGED <<text, option_info, arg_for_box, boxVars, uploadVars, storeVars, customerVars>>

NextCapacity == StandardizeCapacity

SpecCapacity == InitCapacity /\ [][NextCapacity]_vars

----------------------------------------------------------------------------
(* SpecTokens: one row of group_orders_by_recipient from the capacity token *)
(* parse_option_info returned to the recipient's product key, and           *)
(* get_product_quantities on that recipient's products.                     *)

\* the tokens the parser's group  \d+(?:\.\d+)?(?:ml|L)  can match, and ""
ParserTokens ==
    {n \o u : n \in CapacityNumbers, u \in {<<"m", "l">>, <<"L">>}} \cup {<<>>}

InitTokens ==
    /\ text \in ParserTokens
    /\ final_product \in {Sikhye, Sujeonggwa, Gita}
    /\ total_quantity \in 1..MaxKeyQty
    /\ key = <<>>
    /\ df = <<>>
    /\ index = 0
    /\ results = EmptyDict
    /\ orders = <<>>
    /\ total_boxes = EmptyDict
    /\ review_orders = <<>>
    /\ product = <<>>
    /\ option_info = <<>>
    /\ called = "none"
    /\ arg_for_box = TRUE
    /\ pc = "token_call"
    /\ BoxIdle
    /\ StoreIdle
    /\ CustomerIdle

GroupToken ==
    /\ pc = "token_call"
    /\ product' = standardize_capacity_for_box(text)
    /\ key' = IF product' # <<>>
              THEN final_product \o <<" ">> \o product'
              ELSE final_product
    /\ order_products' = Put(EmptyDict, key', total_quantity)
    /\ quantities' = get_product_quantities(order_products')
    /\ called' = "get_product_quantities"
    /\ pc' = "token_returned"
    /\ UNCHANGED <<box_result, text, option_info, arg_for_box, df, index, results,
                   orders, total_boxes, review_orders, final_product, total_quantity,
                   storeVars, customerVars>>

NextTokens == GroupToken

SpecTokens == InitTokens /\ [][NextTokens]_vars

----------------------------------------------------------------------------
(* Spec: one upload, as safe_process_all (main.py) runs it on the cleaned   *)
(* rows: the shipment pass and the save of its aggregate, then, when the    *)
(* rows have a 수취인이름 column, calculate_box_requirements                 *)
(* (group_orders_by_recipient's loop over the rows and the loop over the    *)
(* recipients) and the save of the box aggregate.                          *)

\* the columns sanitize_data keeps; the orderer's are carried, never read
Row(name, option, cell, recipient) ==
    [sangpum_ireum |-> name, opsyeon_ireum |-> option,
     sangpum_suryang |-> cell, suchwiin_ireum |-> recipient,
     jumunja_ireum |-> "choi", jumunja_jeonhwabeonho1 |-> "010-1234-5678"]

Rows ==
    { Row(TagSujeonggwa, OptSikhye1L, IntCell(2), "kim"),
      Row(TagSujeonggwa, Opt5Gae240ml, IntCell(1), "kim"),
      Row(<<>>, Opt2Comma500ml, IntCell(2), "lee"),
      Row(TagSujeonggwa, OptSikhye200ml, IntCell(3), "lee"),
      Row(NaN, NaN, NaNCell, "kim"),
      Row(DanhobakSikhye, OptSikhye1L, IntCell(-1), "lee"),
      Row(<<>>, Opt2Comma500ml, IntCell(1), "kim"),
      Row(Sikhye, Opt0Gae240ml, IntCell(2), "park") }

\* the rows of d whose 수취인이름 cell is empty
NaNRows(d) == {i \in 1..Len(d) : d[i].suchwiin_ireum = NaNShared}

\* the rows as the pass receives them: without the 수취인이름 column, or with
\* it, the NaN cells of the rows in own being objects of their own
AsRead(d, has_column, own) ==
    [i \in 1..Len(d) |->
        IF ~has_column THEN [d[i] EXCEPT !.suchwiin_ireum = Absent]
        ELSE IF i \in own THEN [d[i] EXCEPT !.suchwiin_ireum = NaNObjects[i]]
        ELSE d[i]]

\* the uploads of at most n rows taken from rows
Uploads(rows, n) ==
    UNION { {AsRead(d, h, own) : h \in BOOLEAN, own \in SUBSET NaNRows(d)} :
            d \in SeqsUpTo(rows, n) }

\* df_box is not None and not df_box.empty, and '수취인이름' in df_box.columns
HasRecipientColumn(d) == d # <<>> /\ d[1].suchwiin_ireum # Absent

\* the pass main.py calls by the name process_shipment_data
process_shipment_data == "shipment"

Init ==
    /\ df \in SeqsUpTo(Rows, MaxRows)
    /\ pc = process_shipment_data
    /\ index = 0
    /\ results = EmptyDict
    /\ orders = <<>>
    /\ total_boxes = EmptyDict
    /\ review_orders = <<>>
    /\ final_product = <<>>
    /\ total_quantity = 0
    /\ key = <<>>
    /\ BoxIdle
    /\ TextIdle
    /\ CustomerIdle
    /\ StoreIdle

\* variant: results[key] = total_quantity instead of +=
ProcessRow_Overwrite ==
    /\ pc = "shipment"
    /\ index < Len(df)
    /\ ~Raises(df[index + 1])
    /\ LET row == df[index + 1] IN
        /\ final_product' = final_product_of(row)
        /\ total_quantity' = total_quantity_of(row)
        /\ key' = product_key_of(row, FALSE)
        /\ results' = Put(results, key', total_quantity')
    /\ index' = index + 1
    /\ UNCHANGED <<pc, df, orders, total_boxes, review_orders, boxVars, textVars, customerVars,
                   storeVars>>

\* the shipment pass, one iteration of  for index, row in df.iterrows()
ProcessRow ==
    /\ pc = "shipment"
    /\ index < Len(df)
    /\ ~Raises(df[index + 1])
    /\ LET row == df[index + 1] IN
        /\ final_product' = final_product_of(row)
        /\ total_quantity' = total_quantity_of(row)
        /\ key' = product_key_of(row, FALSE)
        /\ results' = Put(results, key', Get(results, key', 0) + total_quantity')
    /\ index' = index + 1
    /\ UNCHANGED <<pc, df, orders, total_boxes, review_orders, boxVars, textVars, customerVars,
                   storeVars>>

\* variant: the handler keeps what was accumulated before the exception and
\* goes on to the save
ProcessRaise_KeepPartial ==
    /\ pc = "shipment"
    /\ index < Len(df)
    /\ Raises(df[index + 1])
    /\ pc' = "save_shipment"
    /\ index' = 0
    /\ UNCHANGED <<df, results, orders, total_boxes, review_orders, final_product,
                   total_quantity, key, boxVars, textVars, customerVars, storeVars>>

\* a row raises in the shipment pass: the exception leaves the loop and is
\* caught by the handler around the pass (process_unified_file returns {}, []);
\* safe_process_all goes on to the box stage without a save
ProcessRaise ==
    /\ pc = "shipment"
    /\ index < Len(df)
    /\ Raises(df[index + 1])
    /\ results' = EmptyDict
    /\ pc' = "group"
    /\ index' = 0
    /\ UNCHANGED <<df, orders, total_boxes, review_orders, final_product,
                   total_quantity, key, boxVars, textVars, customerVars, storeVars>>

\* the loop is exhausted: the pass returns results
ProcessReturn ==
    /\ pc = "shipment"
    /\ index = Len(df)
    /\ pc' = "save_shipment"
    /\ index' = 0
    /\ UNCHANGED <<df, results, orders, total_boxes, review_orders, final_product,
                   total_quantity, key, boxVars, textVars, customerVars, storeVars>>

\* safe_process_all:  if results: shipment_saved = save_shipment_data(results)
SaveShipmentData ==
    /\ pc = "save_shipment"
    /\ DOMAIN results # {}
    /\ \E ok \in BOOLEAN : SaveToGithub(results, ShipmentFile, ok)
    /\ pc' = "group"
    /\ UNCHANGED <<uploadVars, boxVars, textVars, customerVars>>

\* safe_process_all:  else: the aggregate is empty, nothing is saved
NoShipmentData ==
    /\ pc = "save_shipment"
    /\ DOMAIN results = {}
    /\ pc' = "group"
    /\ UNCHANGED <<uploadVars, boxVars, textVars, customerVars, storeVars>>

\* safe_process_all: no rows or no 수취인이름 column, the box stage is skipped
SkipBox ==
    /\ pc = "group"
    /\ ~HasRecipientColumn(df)
    /\ pc' = "no_box"
    /\ UNCHANGED <<uploadVars, boxVars, textVars, customerVars, storeVars>>

\* position of recipient r in the insertion-ordered dict orders, 0 if absent
PositionOf(os, r) ==
    IF \E i \in 1..Len(os) : os[i].recipient = r
    THEN CHOOSE i \in 1..Len(os) : os[i].recipient = r
    ELSE 0

\* variant: orders[recipient][key] = total_quantity
AddToOrders_Overwrite(os, r, k, q) ==
    LET p == PositionOf(os, r) IN
    IF p = 0
    THEN Append(os, [recipient |-> r, products |-> Put(EmptyDict, k, q)])
    ELSE [os EXCEPT ![p].products = Put(@, k, q)]

\* orders[recipient][key] = orders[recipient].get(key, 0) + total_quantity
AddToOrders(os, r, k, q) ==
    LET p == PositionOf(os, r) IN
    IF p = 0
    THEN Append(os, [recipient |-> r, products |-> Put(EmptyDict, k, q)])
    ELSE [os EXCEPT ![p].products = Put(@, k, Get(@, k, 0) + q)]

\* group_orders_by_recipient, one iteration of  for _, row in df.iterrows()
GroupRow ==
    /\ pc = "group"
    /\ HasRecipientColumn(df)
    /\ index < Len(df)
    /\ ~Raises(df[index + 1])
    /\ LET row == df[index + 1] IN
        /\ final_product' = final_product_of(row)
        /\ total_quantity' = total_quantity_of(row)
        /\ key' = product_key_of(row, TRUE)
        /\ orders' = AddToOrders(orders, recipient_of(row), key', total_quantity')
    /\ index' = index + 1
    /\ UNCHANGED <<pc, df, results, total_boxes, review_orders, boxVars, textVars, customerVars,
                   storeVars>>

\* a row raises in group_orders_by_recipient: calculate_box_requirements does
\* not return, safe_process_all's handler sets box_saved = False
GroupRaise ==
    /\ pc = "group"
    /\ HasRecipientColumn(df)
    /\ index < Len(df)
    /\ Raises(df[index + 1])
    /\ orders' = <<>>
    /\ pc' = "box_failed"
    /\ UNCHANGED <<df, index, results, total_boxes, review_orders, final_product,
                   total_quantity, key, boxVars, textVars, customerVars, storeVars>>

\* the loop is exhausted: group_orders_by_recipient returns orders
GroupReturn ==
    /\ pc = "group"
    /\ HasRecipientColumn(df)
    /\ index = Len(df)
    /\ pc' = "box"
    /\ index' = 0
    /\ UNCHANGED <<df, results, orders, total_boxes, review_orders, final_product,
                   total_quantity, key, boxVars, textVars, customerVars, storeVars>>

\* variant: the counter is incremented for a review recipient too
BoxRecipient_CountReviewToo ==
    /\ pc = "box"
    /\ index < Len(orders)
    /\ LET recipient == orders[index + 1].recipient
           products == orders[index + 1].products
       IN
        /\ order_products' = products
        /\ quantities' = get_product_quantities(order_products')
        /\ box_result' = calculate_box_for_order(quantities')
        /\ review_orders' =
              IF box_result' = Review
              THEN Append(review_orders, [recipient |-> recipient,
                                          quantities |-> quantities',
                                          products |-> products])
              ELSE review_orders
        /\ total_boxes' = Put(total_boxes, box_result', Get(total_boxes, box_result', 0) + 1)
    /\ index' = index + 1
    /\ UNCHANGED <<pc, df, results, orders, final_product, total_quantity, key, textVars, customerVars,
                   storeVars>>

\* calculate_box_requirements, one iteration of  for recipient, products in orders.items()
BoxRecipient ==
    /\ pc = "box"
    /\ index < Len(orders)
    /\ LET recipient == orders[index + 1].recipient
           products == orders[index + 1].products
       IN
        /\ order_products' = products
        /\ quantities' = get_product_quantities(order_products')
        /\ box_result' = calculate_box_for_order(quantities')
        /\ IF box_result' = Review
           THEN /\ review_orders' = Append(review_orders, [recipient |-> recipient,
                                                           quantities |-> quantities',
                                                           products |-> products])
                /\ UNCHANGED total_boxes
           ELSE /\ total_boxes' = Put(total_boxes, box_result',
                                      Get(total_boxes, box_result', 0) + 1)
                /\ UNCHANGED review_orders
    /\ index' = index + 1
    /\ UNCHANGED <<pc, df, results, orders, final_product, total_quantity, key, textVars, customerVars,
                   storeVars>>

\* safe_process_all: the dict built from calculate_box_requirements' result
box_results_of(boxes, box_e_orders) ==
    [total_boxes |-> boxes,
     box_e_orders |-> [i \in 1..Len(box_e_orders) |->
                          [recipient |-> box_e_orders[i].recipient,
                           quantities |-> box_e_orders[i].quantities,
                           products |-> box_e_orders[i].products]]]

\* the loop is exhausted: calculate_box_requirements returns, and
\* safe_process_all passes box_results to save_box_data
BoxReturn ==
    /\ pc = "box"
    /\ index = Len(orders)
    /\ \E ok \in BOOLEAN :
          SaveToGithub(box_results_of(total_boxes, review_orders), BoxFile, ok)
    /\ pc' = "done"
    /\ UNCHANGED <<df, index, results, orders, total_boxes, review_orders,
                   final_product, total_quantity, key, boxVars, textVars, customerVars>>

\* uploads with a name in every 수취인이름 cell and quantity cells int() takes
\* or rejects with ValueError/TypeError
Next ==
    \/ ProcessRow
    \/ ProcessReturn
    \/ SaveShipmentData
    \/ NoShipmentData
    \/ SkipBox
    \/ GroupRow
    \/ GroupReturn
    \/ BoxRecipient
    \/ BoxReturn

Spec == Init /\ [][Next]_vars

\* standardize_capacity on every token, and its two callers in an upload
SpecCapacityUse == (InitCapacity \/ Init) /\ [][NextCapacity \/ Next]_vars

----------------------------------------------------------------------------
(* SpecFaulty: uploads with an empty 수취인이름 cell or without that column,  *)
(* or with a quantity cell that makes int() raise OverflowError, so that a  *)
(* pass can end in an exception                                             *)

FaultyRows ==
    { Row(TagSujeonggwa, OptSikhye1L, IntCell(2), "kim"),
      Row(<<>>, Opt2Comma500ml, IntCell(2), "lee"),
      Row(NaN, NaN, NaNCell, "kim"),
      Row(<<>>, OptSikhye1L, IntCell(1), NaNShared),
      Row(TagSujeonggwa, Opt5Gae240ml, InfCell, "lee") }

InitFaulty ==
    /\ df \in Uploads(FaultyRows, MaxRows)
    /\ pc = process_shipment_data
    /\ index = 0
    /\ results = EmptyDict
    /\ orders = <<>>
    /\ total_boxes = EmptyDict
    /\ review_orders = <<>>
    /\ final_product = <<>>
    /\ total_quantity = 0
    /\ key = <<>>
    /\ BoxIdle
    /\ TextIdle
    /\ CustomerIdle
    /\ StoreIdle

NextFaulty ==
    \/ Next
    \/ ProcessRaise
    \/ GroupRaise

SpecFaulty == InitFaulty /\ [][NextFaulty]_vars

----------------------------------------------------------------------------
(* The stock tab (main.py, tab3).  Every press of a button reruns the       *)
(* script: it loads the stock and the shipment data, then runs the handler  *)
(* of the pressed button, which ends in save_stock_data.  The stock data is *)
(* {"이력": [entry, ...], "최근입력": entry} (iryeok, choegeun_ipryeok); an  *)
(* entry is {"입력일시", "입력용", "출고반영"} (ipryeok_ilsi, ipryeogyong,    *)
(* chulgo_banyeong).                                                        *)

BabalEomneun == <<"bap", "al", "eop", "neun">>              \* 밥알없는

\* main.py: additional_products
additional_products ==
    { DanhobakSikhye \o <<" ">> \o Cap15L,
      DanhobakSikhye \o <<" ">> \o Cap1L,
      DanhobakSikhye \o <<" ">> \o Cap240ml,
      Sikhye \o <<" ">> \o Cap15L,
      Sikhye \o <<" ">> \o Cap1L,
      Sikhye \o <<" ">> \o Cap240ml,
      Sujeonggwa \o <<" ">> \o Cap500ml,
      PlainSsalYogurt \o <<" ">> \o Cap1L,
      PlainSsalYogurt \o <<" ">> \o Cap200ml,
      BabalEomneun \o <<" ">> \o DanhobakSikhye \o <<" ">> \o Cap15L,
      BabalEomneun \o <<" ">> \o DanhobakSikhye \o <<" ">> \o Cap1L,
      BabalEomneun \o <<" ">> \o DanhobakSikhye \o <<" ">> \o Cap240ml,
      BabalEomneun \o <<" ">> \o Sikhye \o <<" ">> \o Cap15L,
      BabalEomneun \o <<" ">> \o Sikhye \o <<" ">> \o Cap1L,
      BabalEomneun \o <<" ">> \o Sikhye \o <<" ">> \o Cap240ml }

\* the shipment aggregates the store may hold when the tab is opened: none;
\* keys of the list above; a key without capacity and one with a passed-
\* through capacity token
ShipmentAggregates ==
    { EmptyDict,
      (Sikhye \o <<" ">> \o Cap1L :> 2) @@ (PlainSsalYogurt \o <<" ">> \o Cap200ml :> 1),
      (Sikhye \o <<" ">> \o Cap1L :> 3) @@ (Gita :> 1) @@ (Sikhye \o <<" ", "2", "l">> :> 1) }

\* str.split(): the words of s between runs of whitespace
RECURSIVE Split(_)
Split(s) ==
    LET b == SkipSpaces(s, 1) IN
    IF b > Len(s) THEN <<>>
    ELSE LET e == FindChar(s, b, " ")
         IN  <<SubSeq(s, b, e - 1)>> \o Split(SubSeq(s, e, Len(s)))

\* ' '.join(words)
RECURSIVE Join(_)
Join(words) ==
    IF words = <<>> THEN <<>>
    ELSE IF Len(words) = 1 THEN words[1]
    ELSE words[1] \o <<" ">> \o Join(Tail(words))

\* parts = product_key.strip().split(); the last part is the capacity when
\* re.match(r'\d+(?:\.\d+)?(?:ml|L)', parts[-1]) succeeds:
\* <<product_name, capacity>>
split_product_key(product_key) ==
    LET parts == Split(product_key)
        n == Len(parts)
    IN  IF n >= 2 /\ CapEnd(parts[n], 1, FALSE) # 0
        THEN <<Join(SubSeq(parts, 1, n - 1)), parts[n]>>
        ELSE <<product_key, <<>>>>

\* input_key = f"{product_name}|{capacity}"
input_key_of(product_key) ==
    LET p == split_product_key(product_key) IN p[1] \o <<"|">> \o p[2]

\* the product keys any script run can see, each with its input key
AllProductKeys == additional_products \cup UNION {DOMAIN a : a \in ShipmentAggregates}
input_key == [k \in AllProductKeys |-> input_key_of(k)]

\* product_keys: the keys of the shipment aggregate and the additional ones
product_keys_of(shipment_results) == (DOMAIN shipment_results) \cup additional_products

\* latest_stock = current_stock["최근입력"]["입력용"], {} without 최근입력
latest_stock_of(stock_results) ==
    IF "choegeun_ipryeok" \in DOMAIN stock_results
    THEN stock_results.choegeun_ipryeok.ipryeogyong
    ELSE EmptyDict

Max(a, b) == IF a >= b THEN a ELSE b

\* variant: the difference is stored as it is
updated_stock_NoFloor(latest_stock, shipment_results) ==
    LET product_keys == product_keys_of(shipment_results) IN
    [ik \in {input_key[k] : k \in product_keys} |->
        LET product_key == CHOOSE k \in product_keys : input_key[k] = ik
        IN  Get(latest_stock, ik, 0) - Get(shipment_results, product_key, 0)]

\* the loop  for product_key in product_keys  of the reflection handler
\* (distinct product keys have distinct input keys)
updated_stock(latest_stock, shipment_results) ==
    LET product_keys == product_keys_of(shipment_results) IN
    [ik \in {input_key[k] : k \in product_keys} |->
        LET product_key == CHOOSE k \in product_keys : input_key[k] = ik
        IN  Max(0, Get(latest_stock, ik, 0) - Get(shipment_results, product_key, 0))]

\* the number_input fields of the form as first shown: existing_value
existing_values(stock_results, shipment_results) ==
    [ik \in {input_key[k] : k \in product_keys_of(shipment_results)} |->
        Get(latest_stock_of(stock_results), ik, 0)]

\* the input the user changes in the form
EditedKey == input_key[Sikhye \o <<" ">> \o Cap1L]

\* new_entry
NewEntry(now_str, stock, reflected) ==
    [ipryeok_ilsi |-> now_str, ipryeogyong |-> stock, chulgo_banyeong |-> reflected]

\* current_stock["이력"].insert(0, new_entry); current_stock["최근입력"] = new_entry
WithEntry(current_stock, new_entry) ==
    [iryeok |-> <<new_entry>> \o (IF "iryeok" \in DOMAIN current_stock
                                  THEN current_stock.iryeok ELSE <<>>),
     choegeun_ipryeok |-> new_entry]

\* one script run starts: load_stock_data() and load_shipment_data(); a load
\* that fails three times returns {} like a load of a missing file
LoadTab(s) ==
    /\ sess[s].pc = "idle"
    /\ now < MaxClock
    /\ now' = now + 1
    /\ \E stock_loaded, shipment_loaded \in BOOLEAN :
          sess' = [sess EXCEPT ![s] =
                      [NewSession EXCEPT
                          !.pc = "loaded",
                          !.admin_mode = sess[s].admin_mode,
                          !.admin_password = sess[s].admin_password,
                          !.today = now',
                          !.stock_results =
                              IF stock_loaded THEN store[StockFile].data ELSE EmptyDict,
                          !.shipment_results =
                              IF shipment_loaded THEN store[ShipmentFile].data
                              ELSE EmptyDict]]
    /\ UNCHANGED <<save_calls, store, pc, uploadVars, boxVars, textVars, customerVars>>

\* the handler of the button 출고 현황 반영, up to the call of save_stock_data
ReflectShipment(s) ==
    /\ sess[s].pc = "loaded"
    /\ sess[s].shipment_results # EmptyDict
    /\ LET current_stock == sess[s].stock_results
           new_entry == NewEntry(sess[s].today,
                                 updated_stock(latest_stock_of(current_stock),
                                               sess[s].shipment_results),
                                 TRUE)
       IN  sess' = [sess EXCEPT ![s].current_stock = WithEntry(current_stock, new_entry),
                                ![s].button = "reflect",
                                ![s].pc = "save_get"]
    /\ UNCHANGED <<save_calls, store, now, pc, uploadVars, boxVars, textVars, customerVars>>

\* the handler of the form button 재고 저장, up to the call of save_stock_data
SaveStock(s) ==
    /\ sess[s].pc = "loaded"
    /\ \E v \in 0..MaxStock :
          LET current_stock == sess[s].stock_results
              shown == existing_values(current_stock, sess[s].shipment_results)
              stock_input == [shown EXCEPT ![EditedKey] = v]
              new_entry == NewEntry(sess[s].today, stock_input, FALSE)
          IN  sess' = [sess EXCEPT ![s].current_stock = WithEntry(current_stock, new_entry),
                                   ![s].button = "save",
                                   ![s].pc = "save_get"]
    /\ UNCHANGED <<save_calls, store, now, pc, uploadVars, boxVars, textVars, customerVars>>

\* save_to_github: the end of an attempt that did not return True
AfterFailedAttempt(s, warning) ==
    IF sess[s].attempt < MaxRetries - 1
    THEN /\ sess' = [sess EXCEPT ![s].warnings = Append(@, warning),
                                 ![s].attempt = @ + 1,
                                 ![s].pc = "save_get"]
         /\ UNCHANGED save_calls
    ELSE /\ sess' = [sess EXCEPT ![s].warnings = Append(@, warning),
                                 ![s].save_success = "False",
                                 ![s].pc = "idle"]
         /\ save_calls' = Append(save_calls, [file |-> StockFile,
                                              data |-> sess[s].current_stock,
                                              ok |-> FALSE])

\* save_to_github: requests.get for the sha (200: the sha, 404: None), or a
\* RequestException
SaveGet(s) ==
    /\ sess[s].pc = "save_get"
    /\ \/ /\ sess' = [sess EXCEPT ![s].sha = store[StockFile].sha,
                                  ![s].pc = "save_put"]
          /\ UNCHANGED <<save_calls, store>>
       \/ /\ AfterFailedAttempt(s, "network")
          /\ UNCHANGED store
    /\ UNCHANGED <<now, pc, uploadVars, boxVars, textVars, customerVars>>

\* variant: an accepted write is put on top of the stored history
SavePut_Rebase(s) ==
    /\ sess[s].pc = "save_put"
    /\ \/ /\ sess[s].sha = store[StockFile].sha
          /\ store' = [store EXCEPT ![StockFile] =
                          [sha |-> @.sha + 1,
                           data |-> WithEntry(@.data,
                                              sess[s].current_stock.choegeun_ipryeok)]]
          /\ save_calls' = Append(save_calls, [file |-> StockFile,
                                               data |-> sess[s].current_stock,
                                               ok |-> TRUE])
          /\ sess' = [sess EXCEPT ![s].save_success = "True", ![s].pc = "idle"]
       \/ /\ sess[s].sha # store[StockFile].sha
          /\ AfterFailedAttempt(s, "409")
          /\ UNCHANGED store
       \/ /\ AfterFailedAttempt(s, "network")
          /\ UNCHANGED store
    /\ UNCHANGED <<now, pc, uploadVars, boxVars, textVars, customerVars>>

\* save_to_github: requests.put.  The contents API creates or replaces the
\* file when the payload's sha is that of the current version (no sha for a
\* new file) and answers 409 otherwise; or a RequestException
SavePut(s) ==
    /\ sess[s].pc = "save_put"
    /\ \/ /\ sess[s].sha = store[StockFile].sha
          /\ store' = [store EXCEPT ![StockFile] =
                          [sha |-> @.sha + 1, data |-> sess[s].current_stock]]
          /\ save_calls' = Append(save_calls, [file |-> StockFile,
                                               data |-> sess[s].current_stock,
                                               ok |-> TRUE])
          /\ sess' = [sess EXCEPT ![s].save_success = "True", ![s].pc = "idle"]
       \/ /\ sess[s].sha # store[StockFile].sha
          /\ AfterFailedAttempt(s, "409")
          /\ UNCHANGED store
       \/ /\ AfterFailedAttempt(s, "network")
          /\ UNCHANGED store
    /\ UNCHANGED <<now, pc, uploadVars, boxVars, textVars, customerVars>>

\* the stock tab with the store holding one of the shipment aggregates and no
\* stock file yet
StockStart ==
    /\ save_calls = <<>>
    /\ now = 0
    /\ \E a \in ShipmentAggregates :
          store = [EmptyStore EXCEPT ![ShipmentFile] =
                      [sha |-> IF a = EmptyDict THEN NoSha ELSE 1, data |-> a]]
    /\ pc = "stock"
    /\ UploadIdle
    /\ BoxIdle
    /\ TextIdle
    /\ CustomerIdle

\* SpecStock: one session
InitStock ==
    /\ StockStart
    /\ sess = [s \in Sessions |-> IF s = 1 THEN NewSession ELSE NoSession]

\* the stock data after one save of the form with quantity v typed in, the
\* store holding shipment aggregate a
FirstStock(a, v) ==
    WithEntry(EmptyDict,
              NewEntry(0, [existing_values(EmptyDict, a) EXCEPT ![EditedKey] = v], FALSE))

\* SpecStockRace: two browser sessions have each started a script run of the
\* tab and loaded the same stock and shipment data
InitStockRace ==
    /\ save_calls = <<>>
    /\ now = Cardinality(Sessions)
    /\ \E a \in ShipmentAggregates, v \in 0..MaxStock :
          /\ store = [EmptyStore EXCEPT
                          ![ShipmentFile] = [sha |-> IF a = EmptyDict THEN NoSha ELSE 1,
                                             data |-> a],
                          ![StockFile] = [sha |-> 1, data |-> FirstStock(a, v)]]
          /\ sess = [s \in Sessions |->
                        [NewSession EXCEPT !.pc = "loaded",
                                           !.today = s,
                                           !.stock_results = FirstStock(a, v),
                                           !.shipment_results = a]]
    /\ pc = "stock"
    /\ UploadIdle
    /\ BoxIdle
    /\ TextIdle
    /\ CustomerIdle

\* SpecReflect: one session, the store holding a stock saved once by the form;
\* the only button pressed is 출고 현황 반영
InitReflect ==
    /\ save_calls = <<>>
    /\ now = 0
    /\ \E a \in ShipmentAggregates, v \in 0..(2 * MaxStock) :
          store = [EmptyStore EXCEPT
                      ![ShipmentFile] = [sha |-> IF a = EmptyDict THEN NoSha ELSE 1,
                                         data |-> a],
                      ![StockFile] = [sha |-> 1, data |-> FirstStock(a, v)]]
    /\ sess = [s \in Sessions |-> IF s = 1 THEN NewSession ELSE NoSession]
    /\ pc = "stock"
    /\ UploadIdle
    /\ BoxIdle
    /\ TextIdle
    /\ CustomerIdle

NextReflect ==
    \E s \in Sessions :
        \/ LoadTab(s)
        \/ ReflectShipment(s)
        \/ SaveGet(s)
        \/ SavePut(s)

SpecReflect == InitReflect /\ [][NextReflect]_vars

NextStock ==
    \E s \in Sessions :
        \/ LoadTab(s)
        \/ ReflectShipment(s)
        \/ SaveStock(s)
        \/ SaveGet(s)
        \/ SavePut(s)

SpecStock == InitStock /\ [][NextStock]_vars

\* the rest of the two script runs, in any interleaving
NextStockRace ==
    \E s \in Sessions :
        \/ ReflectShipment(s)
        \/ SaveStock(s)
        \/ SaveGet(s)
        \/ SavePut(s)

SpecStockRace == InitStockRace /\ [][NextStockRace]_vars

----------------------------------------------------------------------------
(* SpecAdmin: one browser session with the sidebar login (check_admin_access) *)
(* the admin upload section and the stock tab.  The upload is reduced to its  *)
(* two saves, of one of the shipment aggregates and of a box result.          *)

\* st.secrets["admin_password"] and a password that differs from it
ConfiguredPassword == <<"s", "e", "o", "r", "o">>
Passwords == {ConfiguredPassword, <<"1", "2", "3", "4">>}

\* check_admin_access, admin_mode false: the button 로그인 is pressed
Login(s) ==
    /\ sess[s].pc = "idle"
    /\ ~sess[s].admin_mode
    /\ \E password \in Passwords :
          sess' = [sess EXCEPT ![s].admin_password = password,
                               ![s].admin_mode = (password = ConfiguredPassword)]
    /\ UNCHANGED <<save_calls, store, now, pc, uploadVars, boxVars, textVars, customerVars>>

\* check_admin_access, admin_mode true: the button 로그아웃 is pressed
Logout(s) ==
    /\ sess[s].pc = "idle"
    /\ sess[s].admin_mode
    /\ sess' = [sess EXCEPT ![s].admin_mode = FALSE, ![s].admin_password = <<>>]
    /\ UNCHANGED <<save_calls, store, now, pc, uploadVars, boxVars, textVars, customerVars>>

\* the upload section, shown  if is_admin:  a file is uploaded and
\* safe_process_all saves the shipment aggregate and the box result
AdminUpload(s) ==
    /\ sess[s].pc = "idle"
    /\ sess[s].admin_mode
    /\ now < MaxClock
    /\ now' = now + 1
    /\ \E a \in ShipmentAggregates \ {EmptyDict}, shipment_saved, box_saved \in BOOLEAN :
          LET box_results == box_results_of((BoxA :> 1), <<>>)
              calls == <<[file |-> ShipmentFile, data |-> a, ok |-> shipment_saved],
                         [file |-> BoxFile, data |-> box_results, ok |-> box_saved]>>
          IN  /\ save_calls' = save_calls \o calls
              /\ store' = [f \in Files |->
                    IF f = ShipmentFile /\ shipment_saved
                    THEN [sha |-> store[f].sha + 1, data |-> a]
                    ELSE IF f = BoxFile /\ box_saved
                    THEN [sha |-> store[f].sha + 1, data |-> box_results]
                    ELSE store[f]]
    /\ UNCHANGED <<sess, pc, uploadVars, boxVars, textVars, customerVars>>

InitAdmin == InitStock

NextAdmin ==
    \E s \in Sessions :
        \/ Login(s)
        \/ Logout(s)
        \/ AdminUpload(s)
        \/ LoadTab(s)
        \/ ReflectShipment(s)
        \/ SaveStock(s)
        \/ SaveGet(s)
        \/ SavePut(s)

SpecAdmin == InitAdmin /\ [][NextAdmin]_vars

----------------------------------------------------------------------------
(* Claims about calculate_box_for_order *)

NonZeroBuckets(q) == {c \in DOMAIN q : q[c] # 0}

\* some nonzero bucket of q is capacity cap with a quantity in lo..hi
Holds(q, cap, lo, hi) == cap \in NonZeroBuckets(q) /\ lo <= q[cap] /\ q[cap] <= hi

\* C1: for every vector with at most one nonzero bucket (c, q) the result is
\* box A iff (1L, 1..2), (500ml, 1..3) or (240ml, 1..5); box B iff (1L, 3..4),
\* (500ml, 4..6) or (240ml, 6..10); box C iff (500ml, 10); box D iff (1L, 5..6);
\* box E iff (1.5L, 3..4); box F iff (1.5L, 1..2); and needs-review for every
\* other vector (all zero, 500ml 7..9, 1L >= 7, 240ml > 10, 1.5L >= 5).
C1_BoxTableExact ==
    (pc = "box_returned" /\ Cardinality(NonZeroBuckets(quantities)) <= 1) =>
        LET q == quantities IN
        /\ box_result \in Boxes \cup {Review}
        /\ box_result = BoxA <=>
              Holds(q, Cap1L, 1, 2) \/ Holds(q, Cap500ml, 1, 3) \/ Holds(q, Cap240ml, 1, 5)
        /\ box_result = BoxB <=>
              Holds(q, Cap1L, 3, 4) \/ Holds(q, Cap500ml, 4, 6) \/ Holds(q, Cap240ml, 6, 10)
        /\ box_result = BoxC <=> Holds(q, Cap500ml, 10, 10)
        /\ box_result = BoxD <=> Holds(q, Cap1L, 5, 6)
        /\ box_result = BoxE <=> Holds(q, Cap15L, 3, 4)
        /\ box_result = BoxF <=> Holds(q, Cap15L, 1, 2)

\* the vector with quantity n in bucket cap and zero elsewhere
OnlyBucket(cap, n) == [c \in Capacities |-> IF c = cap THEN n ELSE 0]

\* C1 witness: ten 500ml bottles alone have been decided, as box C
C1_Witness ==
    /\ pc = "box_returned"
    /\ quantities = OnlyBucket(Cap500ml, 10)
    /\ box_result = BoxC

\* C1, second witness state: seven 1L bottles alone fall through to review
C1_WitnessReview ==
    /\ pc = "box_returned"
    /\ quantities = OnlyBucket(Cap1L, 7)
    /\ box_result = Review

\* C2: a recipient whose vector has more than one bucket with a nonzero
\* quantity gets needs-review, whatever the quantities are, and is never
\* counted in a box A-F.
C2_MixedAlwaysReview ==
    (pc = "box" /\ index > 0 /\ Cardinality(NonZeroBuckets(quantities)) > 1) =>
        box_result = Review

----------------------------------------------------------------------------
(* Claims about the upload passes *)

\* the decision calculate_box_requirements takes for the i-th recipient
DecisionOf(i) == calculate_box_for_order(get_product_quantities(orders[i].products))

\* C3: calculate_box_requirements gives each distinct recipient exactly one
\* outcome: after every iteration the box counts plus the length of the
\* review list equal the number of recipients handled, at the end the number
\* of distinct recipients of the rows; each box count is the number of
\* recipients decided for that box, the review list holds exactly the
\* recipients decided needs-review, each once, and no others.
C3_RecipientPartition ==
    (pc \in {"box", "done"}) =>
        LET decision == [i \in 1..index |-> DecisionOf(i)] IN
        /\ SumValues(total_boxes) + Len(review_orders) = index
        /\ pc = "done" =>
              index = Cardinality({df[i].suchwiin_ireum : i \in 1..Len(df)})
        /\ \A i, j \in 1..Len(orders) :
              orders[i].recipient = orders[j].recipient => i = j
        /\ DOMAIN total_boxes \subseteq Boxes
        /\ \A b \in Boxes :
              Get(total_boxes, b, 0) = Cardinality({i \in 1..index : decision[i] = b})
        /\ \A i, j \in 1..Len(review_orders) :
              review_orders[i].recipient = review_orders[j].recipient => i = j
        /\ {review_orders[i].recipient : i \in 1..Len(review_orders)}
              = {orders[i].recipient : i \in {j \in 1..index : decision[j] = Review}}

\* C3 witness: an upload with three recipients is finished, one of them in
\* review and two counted in boxes
C3_Witness ==
    /\ pc = "done"
    /\ Len(orders) = 3
    /\ Len(review_orders) = 1
    /\ SumValues(total_boxes) = 2

\* base_quantity * unit_multiplier of a row
EffectiveQuantity(row) ==
    (IF row.sangpum_suryang.kind = "int" THEN row.sangpum_suryang.value ELSE 1)
        * option_info_of[row.opsyeon_ireum][1]

RECURSIVE SumEffective(_, _)
SumEffective(rows, n) ==
    IF n = 0 THEN 0 ELSE SumEffective(rows, n - 1) + EffectiveQuantity(rows[n])

\* C4: after each row process_unified_file accumulates, the sum of the values
\* of the shipment aggregate equals the sum of the effective quantities of the
\* rows handled so far, and of all rows once the pass is over.
C4_Conservation ==
    /\ pc = "shipment" => SumValues(results) = SumEffective(df, index)
    /\ pc # "shipment" => SumValues(results) = SumEffective(df, Len(df))

\* C4 witness: two rows with the same product key (기타 500ml) were summed
\* under that one key: 2 x 2 + 1 x 2
C4_Witness ==
    /\ pc = "shipment"
    /\ index = 2
    /\ df[1].opsyeon_ireum = Opt2Comma500ml
    /\ df[2].opsyeon_ireum = Opt2Comma500ml
    /\ df[1].sangpum_suryang # df[2].sangpum_suryang
    /\ DOMAIN results = {Gita \o <<" ">> \o Cap500ml}
    /\ SumValues(results) = 6

\* C6: in both passes the category of the row just handled is the option-text
\* category whenever that is not 기타, and the product-name category only when
\* the option-text category is 기타; the product key starts with it.
C6_OptionCategoryFirst ==
    (pc \in {"shipment", "group"} /\ index > 0) =>
        LET row == df[index]
            option_product == option_product_of[row.opsyeon_ireum]
            name_product == name_product_of[row.sangpum_ireum]
        IN  /\ option_product # Gita => final_product = option_product
            /\ option_product = Gita => final_product = name_product
            /\ StartsAt(key, 1, final_product)

\* C6 witness: in the recipient pass a row whose option says 식혜 and whose
\* product name says 수정과 was keyed as 식혜
C6_Witness ==
    /\ pc = "group"
    /\ index > 0
    /\ option_product_of[df[index].opsyeon_ireum] = Sikhye
    /\ name_product_of[df[index].sangpum_ireum] = Sujeonggwa
    /\ final_product = Sikhye
    /\ \E i \in 1..Len(orders) : (Sikhye \o <<" ">> \o Cap1L) \in DOMAIN orders[i].products

\* C6, second witness state: in the shipment pass a row whose option has no
\* category took the category of its product name
C6_WitnessFallback ==
    /\ pc = "shipment"
    /\ index > 0
    /\ option_product_of[df[index].opsyeon_ireum] = Gita
    /\ final_product = Sujeonggwa

----------------------------------------------------------------------------
(* Claims about the category extractors *)

HasYogurtKeyword(t) == Contains(t, SsalYogurt) \/ Contains(t, Yogurt) \/ Contains(t, Plain)

\* C5 as stated: the category is 단호박식혜 if the text contains 단호박식혜;
\* otherwise 수정과 if it contains 수정과; otherwise 플레인 쌀요거트 if it contains
\* 쌀요거트, 요거트 or 플레인; otherwise 식혜 if it contains 식혜; otherwise 기타.
C5_StatedPriority ==
    (called = "extract_product_from_option") =>
        LET t == Lower(text) IN
        product = IF isna(text) THEN Gita
                  ELSE IF Contains(t, DanhobakSikhye) THEN DanhobakSikhye
                  ELSE IF Contains(t, Sujeonggwa) THEN Sujeonggwa
                  ELSE IF HasYogurtKeyword(t) THEN PlainSsalYogurt
                  ELSE IF Contains(t, Sikhye) THEN Sikhye
                  ELSE Gita

\* plain 식혜 as the code tests it: 일반식혜, or 식혜 without 단호박 anywhere
IsPlainSikhye(t) == Contains(t, IlbanSikhye) \/ (Contains(t, Sikhye) /\ ~Contains(t, Danhobak))

\* C5 amended: 단호박식혜 iff the text contains 단호박식혜; 식혜 iff it does not
\* and it contains 일반식혜, or 식혜 and no 단호박; 수정과 iff neither of these
\* and it contains 수정과; 플레인 쌀요거트 iff none of these and it contains
\* 쌀요거트, 요거트 or 플레인; 기타 iff none of the tests holds or the text is
\* missing.
C5_CodePriority ==
    (called = "extract_product_from_option") =>
        LET t == Lower(text)
            d == ~isna(text) /\ Contains(t, DanhobakSikhye)
            s == ~isna(text) /\ IsPlainSikhye(t)
            j == ~isna(text) /\ Contains(t, Sujeonggwa)
            y == ~isna(text) /\ HasYogurtKeyword(t)
        IN  /\ product = DanhobakSikhye <=> d
            /\ product = Sikhye <=> ~d /\ s
            /\ product = Sujeonggwa <=> ~d /\ ~s /\ j
            /\ product = PlainSsalYogurt <=> ~d /\ ~s /\ ~j /\ y
            /\ product = Gita <=> ~d /\ ~s /\ ~j /\ ~y

\* C5 witness: an option text naming both 식혜 and 수정과 was classified 식혜
C5_Witness ==
    /\ called = "extract_product_from_option"
    /\ text = Sikhye \o <<" ">> \o Sujeonggwa
    /\ product = Sikhye

\* C5, second witness state: 단호박 and 식혜 apart are no category at all
C5_WitnessApart ==
    /\ called = "extract_product_from_option"
    /\ text = Danhobak \o <<" ">> \o Sikhye
    /\ product = Gita

\* C7: a product name without a [서로 ...] tag gets the keyword tests on the
\* whole name, so one that contains 단호박식혜, 식혜 or 수정과 is classified as
\* that category and not as 기타.
C7_WholeNameKeywords ==
    (called = "extract_product_from_name" /\ ~isna(text)
        /\ ~SearchBracket(Lower(text)).ok) =>
        LET t == Lower(text) IN
        /\ Contains(t, DanhobakSikhye) => product = DanhobakSikhye
        /\ (Contains(t, Sikhye) \/ Contains(t, Sujeonggwa)) => product # Gita

----------------------------------------------------------------------------
(* Claims about parse_option_info *)

\* the hit of pattern k in text s, groups ordered <<count, capacity>>
PatternHit(k, s, ignorecase) ==
    CASE k = 1 -> LET m == SearchPattern1(s, ignorecase)
                  IN [ok |-> m.ok, n |-> m.g1, cap |-> m.g2]
      [] k = 2 -> LET m == SearchPattern2(s, ignorecase)
                  IN [ok |-> m.ok, n |-> m.g1, cap |-> m.g2]
      [] k = 3 -> LET m == SearchPattern3(s, ignorecase)
                  IN [ok |-> m.ok, n |-> m.g2, cap |-> m.g1]
      [] k = 4 -> LET m == SearchPattern4(s, ignorecase)
                  IN [ok |-> m.ok, n |-> m.g2, cap |-> m.g1]
      [] k = 5 -> LET m == SearchPattern5(s, ignorecase)
                  IN [ok |-> m.ok, n |-> <<"1">>, cap |-> m.g1]

\* the (multiplier, capacity) of the lowest-numbered pattern that matches
LowestPattern(s, ignorecase) ==
    LET matching == {k \in 1..5 : PatternHit(k, s, ignorecase).ok}
    IN  IF isna(s) \/ matching = {} THEN <<1, <<>>>>
        ELSE LET k == CHOOSE x \in matching : \A y \in matching : x <= y
                 m == PatternHit(k, s, ignorecase)
             IN  <<ToInt(m.n), m.cap>>

Example5Gae240ml == <<"5", Gae, ",", " ">> \o Cap240ml                   \* 5개, 240ml
ExampleYongryang == Yongryang \o <<" ", ":", " ">> \o Cap1L \o <<" ", "2", Byeong>>
ExamplePlain1L == PlainSsalYogurt \o <<" ">> \o Cap1L                    \* 플레인 쌀요거트 1L

\* C8: parse_option_info returns the (multiplier, capacity) of the
\* lowest-numbered of the five patterns that matches, and (1, "") when none
\* matches or the text is missing; "5개, 240ml" gives (5, 240ml),
\* "용량 : 1L 2병" gives (2, 1L), "플레인 쌀요거트 1L" gives (1, 1L), "" gives (1, "").
C8_LowestPatternWins ==
    (called = "parse_option_info") =>
        /\ option_info = LowestPattern(text, FALSE)
        /\ text = Example5Gae240ml => option_info = <<5, Cap240ml>>
        /\ text = ExampleYongryang => option_info = <<2, Cap1L>>
        /\ text = ExamplePlain1L => option_info = <<1, Cap1L>>
        /\ text = <<>> => option_info = <<1, <<>>>>
        /\ text = NaN => option_info = <<1, <<>>>>

\* C8 witness: "240ml1L 2병" matches pattern 4 at 1L and pattern 5 at 240ml;
\* the result is pattern 4's
C8_Witness ==
    /\ called = "parse_option_info"
    /\ text = Cap240ml \o Cap1L \o <<" ", "2", Byeong>>
    /\ PatternHit(5, text, FALSE).cap = Cap240ml
    /\ option_info = <<2, Cap1L>>

\* C8, further witness states: pattern 1 wins over an earlier pattern 2 hit,
\* and pattern 3 over an earlier pattern 4 hit
C8_WitnessPattern1 ==
    /\ called = "parse_option_info"
    /\ PatternHit(1, text, FALSE).ok
    /\ PatternHit(2, text, FALSE).ok
    /\ PatternHit(2, text, FALSE).cap # PatternHit(1, text, FALSE).cap
    /\ option_info = <<5, Cap240ml>>

C8_WitnessPattern3 ==
    /\ called = "parse_option_info"
    /\ PatternHit(3, text, FALSE).ok
    /\ PatternHit(4, text, FALSE).cap = Cap1L
    /\ option_info = <<3, Cap15L>>

\* C8, further witness state: the spec's example with the 용량 prefix
C8_WitnessYongryang ==
    /\ called = "parse_option_info"
    /\ text = ExampleYongryang
    /\ option_info = <<2, Cap1L>>

\* C9: the capacity token is recognised in any letter case by all five
\* patterns and returned with its original case, so a text with such a token
\* never yields the empty capacity.
C9_CapacityAnyCase ==
    (called = "parse_option_info") =>
        /\ option_info = LowestPattern(text, TRUE)
        /\ (~isna(text) /\ PatternHit(5, text, TRUE).ok) => option_info[2] # <<>>

\* C10: the unit multiplier is >= 1, so for every base quantity >= 0 the
\* effective quantity base x multiplier is >= base.
C10_MultiplierAtLeastOne ==
    (called = "parse_option_info") =>
        /\ option_info[1] >= 1
        /\ \A base \in 0..MaxQty : base * option_info[1] >= base


----------------------------------------------------------------------------
(* Claims about standardize_capacity *)

Cap1000ml == <<"1", "0", "0", "0", "m", "l">>

\* the lowered spellings of the six tokens the table names
NamedCapacities ==
    {Lower(Cap15L), Lower(Cap1L), Cap1000ml, Cap500ml, Cap240ml, Cap200ml}

\* the canonical token the table gives a named token (or the empty one)
StatedCapacity(token, box) ==
    LET c == Lower(token) IN
    IF token = <<>> THEN <<>>
    ELSE IF c = Lower(Cap15L) THEN Cap15L
    ELSE IF c = Lower(Cap1L) \/ c = Cap1000ml THEN Cap1L
    ELSE IF c = Cap500ml THEN Cap500ml
    ELSE IF c = Cap240ml THEN Cap240ml
    ELSE IF box THEN Cap240ml ELSE Cap200ml

\* the product key made of a category and a canonical capacity
KeyOf(category, capacity) ==
    IF capacity = <<>> THEN category ELSE category \o <<" ">> \o capacity

\* C11: standardize_capacity maps, in any letter case, "" to "", 1.5L to 1.5L,
\* 1L and 1000ml to 1L, 500ml to 500ml, 240ml to 240ml, and 200ml to 240ml when
\* for_box is true but to 200ml when it is false; for no other token does
\* for_box change the result.  The shipment pass keys each row with
\* for_box = false (a 200ml row under a 200ml key) and the recipient pass with
\* for_box = true (no recipient product key carries 200ml).
C11_CapacityTable ==
    /\ (called = "standardize_capacity"
            /\ (text = <<>> \/ Lower(text) \in NamedCapacities)) =>
          product = StatedCapacity(text, arg_for_box)
    /\ (called = "standardize_capacity" /\ Lower(text) # Cap200ml) =>
          product = standardize_capacity(text, ~arg_for_box)
    /\ (pc = "shipment" /\ index > 0) =>
          /\ key = KeyOf(final_product,
                         StatedCapacity(option_info_of[df[index].opsyeon_ireum][2], FALSE))
          /\ key \in DOMAIN results
    /\ (pc = "group" /\ index > 0) =>
          key = KeyOf(final_product,
                      StatedCapacity(option_info_of[df[index].opsyeon_ireum][2], TRUE))
    /\ \A i \in 1..Len(orders) : \A k \in DOMAIN orders[i].products :
          ~Contains(k, Cap200ml)

\* C11 witness: the recipient pass has keyed a 200ml row as 240ml, after the
\* shipment pass put it under a 200ml key
C11_Witness ==
    /\ pc = "group"
    /\ index > 0
    /\ option_info_of[df[index].opsyeon_ireum][2] = Cap200ml
    /\ key = Sikhye \o <<" ">> \o Cap240ml
    /\ (Sikhye \o <<" ">> \o Cap200ml) \in DOMAIN results
    /\ \E i \in 1..Len(orders) : key \in DOMAIN orders[i].products

\* C11, second witness state: 200ML with for_box false came back as 200ml
C11_WitnessTable ==
    /\ called = "standardize_capacity"
    /\ text = <<"2", "0", "0", "M", "L">>
    /\ ~arg_for_box
    /\ product = Cap200ml

\* C12: every non-empty capacity token that is, in any letter case, none of
\* 1.5L, 1L, 1000ml, 500ml, 240ml, 200ml is returned as the identical string,
\* same characters and same letter case, for both values of for_box.
C12_PassThroughUnchanged ==
    (called = "standardize_capacity" /\ text # <<>>
        /\ Lower(text) \notin NamedCapacities) =>
        product = text


----------------------------------------------------------------------------
(* Claims about the recipient grouping and the store calls of an upload.    *)

\* the 수취인이름 cell of the row is missing: no such column, or NaN
MissingRecipient(row) ==
    row.suchwiin_ireum \in
        {Absent, NaNShared} \cup {NaNObjects[i] : i \in DOMAIN NaNObjects}

\* the recipient a row is to be grouped under
StatedRecipient(row) ==
    IF MissingRecipient(row) THEN Unknown ELSE row.suchwiin_ireum

RECURSIVE SumGrouped(_, _, _, _)
\* the effective quantities of the first n rows grouped under recipient r, key k
SumGrouped(rows, n, r, k) ==
    IF n = 0 THEN 0
    ELSE SumGrouped(rows, n - 1, r, k)
            + (IF StatedRecipient(rows[n]) = r /\ product_key_of(rows[n], TRUE) = k
               THEN EffectiveQuantity(rows[n]) ELSE 0)

\* C13: group_orders_by_recipient holds, for every row handled, the sum of the
\* effective quantities of the handled rows of that row's recipient and product
\* key; a row whose recipient is missing (column absent, or NaN cell) counts
\* for the recipient 알 수 없음.
C13_GroupedByRecipient ==
    (pc = "group" /\ index > 0) =>
        \A i \in 1..index :
            \E p \in 1..Len(orders) :
                /\ orders[p].recipient = StatedRecipient(df[i])
                /\ Get(orders[p].products, product_key_of(df[i], TRUE), 0)
                     = SumGrouped(df, index, StatedRecipient(df[i]),
                                  product_key_of(df[i], TRUE))

\* the names in the personal columns of the upload
PersonalValues ==
    UNION {{df[i].suchwiin_ireum, df[i].jumunja_ireum, df[i].jumunja_jeonhwabeonho1} :
           i \in 1..Len(df)}

\* C16: nothing handed to save_shipment_data or save_box_data holds a personal
\* field of an order row: the shipment data are product keys with quantities,
\* the box data box names, capacities, product keys and quantities, and no
\* entry of them carries a recipient name, an orderer name or a phone number.
C16_NoPersonalFieldSaved ==
    \A n \in 1..Len(save_calls) :
        LET c == save_calls[n] IN
        /\ c.file = ShipmentFile =>
              DOMAIN c.data \subseteq {product_key_of(df[i], FALSE) : i \in 1..Len(df)}
        /\ c.file = BoxFile =>
              /\ DOMAIN c.data.total_boxes \subseteq Boxes
              /\ \A j \in 1..Len(c.data.box_e_orders) :
                    LET o == c.data.box_e_orders[j] IN
                    /\ DOMAIN o.quantities \subseteq Capacities
                    /\ DOMAIN o.products \subseteq
                          {product_key_of(df[i], TRUE) : i \in 1..Len(df)}
                    /\ \A f \in DOMAIN o \ {"quantities", "products"} :
                          o[f] \notin PersonalValues

RECURSIVE Aggregate(_, _)
\* the shipment aggregate of the first n rows
Aggregate(rows, n) ==
    IF n = 0 THEN EmptyDict
    ELSE LET a == Aggregate(rows, n - 1)
             k == product_key_of(rows[n], FALSE)
         IN  Put(a, k, Get(a, k, 0) + EffectiveQuantity(rows[n]))

\* C17: every save call of an upload carries a finished aggregate: the shipment
\* save the aggregate of all rows, the box save the result of the completed box
\* calculation; when a row raises in a pass the partial mapping is dropped
\* (the pass yields an empty result) and no save call for that aggregate is made.
C17_OnlyFinishedAggregateSaved ==
    /\ \A n \in 1..Len(save_calls) :
          LET c == save_calls[n] IN
          /\ \A i \in 1..Len(df) : ~Raises(df[i])
          /\ c.file = ShipmentFile => c.data = Aggregate(df, Len(df))
          /\ c.file = BoxFile =>
                /\ pc = "done"
                /\ c.data = box_results_of(total_boxes, review_orders)
                /\ SumValues(total_boxes) + Len(review_orders) = Len(orders)
    /\ (pc # "shipment" /\ \E i \in 1..Len(df) : Raises(df[i])) =>
          results = EmptyDict

\* C17 witness: the second row raised after the first had been accumulated;
\* both stages are over and no save call was made
C17_Witness ==
    /\ pc = "box_failed"
    /\ Len(df) >= 2
    /\ ~Raises(df[1])
    /\ Raises(df[2])
    /\ key = product_key_of(df[1], TRUE)
    /\ results = EmptyDict
    /\ save_calls = <<>>

\* C19: in both passes a row whose 상품수량 is not an integer counts with base
\* quantity 1 and the pass goes on to the next row, never raising; a row whose
\* option text and product name are missing is 기타 with multiplier 1 and no
\* capacity.
C19_UnparseableQuantityIsOne ==
    /\ (pc \in {"shipment", "group"} /\ index > 0
            /\ df[index].sangpum_suryang.kind # "int") =>
          total_quantity = option_info_of[df[index].opsyeon_ireum][1]
    /\ (pc \in {"shipment", "group"} /\ index > 0
            /\ df[index].opsyeon_ireum = NaN /\ df[index].sangpum_ireum = NaN) =>
          /\ final_product = Gita
          /\ key = Gita
          /\ total_quantity = base_quantity_of(df[index].sangpum_suryang)
    /\ pc # "shipment" => SumValues(results) = SumEffective(df, Len(df))
    /\ pc # "box_failed"

----------------------------------------------------------------------------
(* Claims about get_product_quantities *)

\* the key ends with a space and the capacity token
HasCapacity(product_key, capacity) ==
    /\ Len(product_key) > Len(capacity)
    /\ StartsAt(product_key, Len(product_key) - Len(capacity), <<" ">> \o capacity)

\* the key names one of the capacities the chain tests, anywhere in it
NamesCapacity(product_key) ==
    \E c \in Capacities \cup {Cap200ml} : Contains(product_key, c)

\* the keys of the argument that carry one of the given capacities
KeysOf(capacities) ==
    {k \in DOMAIN order_products : \E c \in capacities : HasCapacity(k, c)}

\* C20: get_product_quantities counts every product key in at most one bucket
\* (the buckets add up to the quantities of the keys that name a capacity, each
\* once); the keys of capacity 1.5L make up the 1.5L bucket and none of them is
\* in the 1L bucket; a key of raw capacity 200ml is counted in the 240ml bucket.
C20_OneBucketPerKey ==
    pc = "buckets_returned" =>
        /\ DOMAIN quantities \subseteq Capacities
        /\ SumValues(quantities)
              = SumOver(order_products, {k \in DOMAIN order_products : NamesCapacity(k)})
        /\ Get(quantities, Cap15L, 0) = SumOver(order_products, KeysOf({Cap15L}))
        /\ Get(quantities, Cap1L, 0) = SumOver(order_products, KeysOf({Cap1L}))
        /\ Get(quantities, Cap240ml, 0) >= SumOver(order_products, KeysOf({Cap240ml, Cap200ml}))
        /\ KeysOf({Cap200ml}) # {} => Cap240ml \in DOMAIN quantities

\* C20 witness: a 1.5L key, a 1L key and a raw 200ml key were counted: the
\* 1.5L and 1L buckets hold one key each, the 240ml bucket the 200ml key
C20_Witness ==
    /\ pc = "buckets_returned"
    /\ order_products = (Sikhye \o <<" ">> \o Cap15L :> 2)
                            @@ (Sikhye \o <<" ">> \o Cap1L :> 1)
                            @@ (Sikhye \o <<" ">> \o Cap200ml :> 2)
    /\ quantities = (Cap15L :> 2) @@ (Cap1L :> 1) @@ (Cap240ml :> 2)

----------------------------------------------------------------------------
(* Claims about the stock tab *)

\* the composite key 'name|capacity' of a product key: the key with its last
\* blank replaced by | when it ends in a capacity, the key and | otherwise
CompositeKey(product_key) ==
    IF \E c \in Capacities \cup {Cap200ml} : HasCapacity(product_key, c)
    THEN LET c == CHOOSE c \in Capacities \cup {Cap200ml} : HasCapacity(product_key, c)
         IN  SubSeq(product_key, 1, Len(product_key) - Len(c) - 1) \o <<"|">> \o c
    ELSE product_key \o <<"|">>

\* the entries of a stock data
EntriesOf(stock) == IF "iryeok" \in DOMAIN stock THEN stock.iryeok ELSE <<>>

\* C14: the snapshot a reflection builds holds, for every product key of the
\* shipment aggregate and of the additional list, under 'name|capacity' exactly
\* max(0, current_qty - shipment_qty), with current_qty the latest loaded
\* snapshot's value (0 if absent) and shipment_qty the aggregate's (0 if
\* absent), and nothing else; no reflected snapshot holds a negative quantity.
C14_ReflectionFloorsAtZero ==
    /\ \A s \in Sessions :
          LET built == sess[s].current_stock IN
          ("choegeun_ipryeok" \in DOMAIN built
                /\ built.choegeun_ipryeok.chulgo_banyeong) =>
              LET snapshot == built.choegeun_ipryeok.ipryeogyong
                  latest == latest_stock_of(sess[s].stock_results)
                  shipment == sess[s].shipment_results
                  universe == (DOMAIN shipment) \cup additional_products
              IN  /\ DOMAIN snapshot = {CompositeKey(k) : k \in universe}
                  /\ \A k \in universe :
                        LET current_qty == Get(latest, CompositeKey(k), 0)
                            shipment_qty == Get(shipment, k, 0)
                        IN  snapshot[CompositeKey(k)] =
                                IF current_qty - shipment_qty > 0
                                THEN current_qty - shipment_qty ELSE 0
    /\ \A i \in 1..Len(EntriesOf(store[StockFile].data)) :
          LET entry == EntriesOf(store[StockFile].data)[i] IN
          entry.chulgo_banyeong =>
              \A ik \in DOMAIN entry.ipryeogyong : entry.ipryeogyong[ik] >= 0

\* C14 witness: a stored reflection of shipment quantity 2 on a stock of 1
\* gave 0, and left the stock of a key that was not shipped as it was
C14_Witness ==
    \E s \in Sessions :
        /\ sess[s].save_success = "True"
        /\ sess[s].current_stock = store[StockFile].data
        /\ "choegeun_ipryeok" \in DOMAIN store[StockFile].data
        /\ store[StockFile].data.choegeun_ipryeok.chulgo_banyeong
        /\ Get(latest_stock_of(sess[s].stock_results), EditedKey, 0) = 1
        /\ Get(sess[s].shipment_results, Sikhye \o <<" ">> \o Cap1L, 0) = 2
        /\ store[StockFile].data.choegeun_ipryeok.ipryeogyong[EditedKey] = 0
        /\ Len(store[StockFile].data.iryeok) = 2

\* the entries of the successful stock saves among the first n calls, the
\* latest first
RECURSIVE SavedEntries(_)
SavedEntries(n) ==
    IF n = 0 THEN <<>>
    ELSE IF save_calls[n].file = StockFile /\ save_calls[n].ok
         THEN <<save_calls[n].data.choegeun_ipryeok>> \o SavedEntries(n - 1)
         ELSE SavedEntries(n - 1)

\* C15: the stored 이력 is append-only and most-recent-first: it holds every
\* entry saved so far, the latest first, whether the load before an operation
\* succeeded or returned empty data; the entry an operation adds is at index 0,
\* with 출고반영 true for a reflection and false for a manual save, and
\* 최근입력 is 이력[0].
C15_HistoryAppendOnly ==
    /\ EntriesOf(store[StockFile].data) = SavedEntries(Len(save_calls))
    /\ "choegeun_ipryeok" \in DOMAIN store[StockFile].data =>
          store[StockFile].data.choegeun_ipryeok = store[StockFile].data.iryeok[1]
    /\ \A s \in Sessions :
          sess[s].button # "none" =>
              /\ sess[s].current_stock.iryeok[1] = sess[s].current_stock.choegeun_ipryeok
              /\ sess[s].current_stock.iryeok[1].chulgo_banyeong
                    = (sess[s].button = "reflect")
              /\ sess[s].current_stock.iryeok[1].ipryeok_ilsi = sess[s].today

\* the session was shown the answer 409 of a rejected PUT
Saw409(s) == \E i \in 1..Len(sess[s].warnings) : sess[s].warnings[i] = "409"

\* the entry the session's handler built is in the stored history
EntryStored(s) ==
    \E i \in 1..Len(EntriesOf(store[StockFile].data)) :
        store[StockFile].data.iryeok[i] = sess[s].current_stock.choegeun_ipryeok

\* save_stock_data returned True in the session
Saved(s) == sess[s].save_success = "True"

\* the data of the latest successful save, the initial data if there is none
RECURSIVE LastAccepted(_)
LastAccepted(n) ==
    IF n = 0 THEN sess[1].stock_results
    ELSE IF save_calls[n].ok THEN save_calls[n].data
    ELSE LastAccepted(n - 1)

\* the store holds the data of the write accepted last, and of two saved
\* changes made on the same loaded data only one, on top of that data
LastWriteWins ==
    /\ store[StockFile].data = LastAccepted(Len(save_calls))
    /\ Len(EntriesOf(store[StockFile].data)) <= 2
    /\ \A s, t \in Sessions :
          (s # t /\ Saved(s) /\ Saved(t)) => (EntryStored(s) # EntryStored(t))

----------------------------------------------------------------------------
(* The customer order history: stage 4 of safe_process_all on the copy      *)
(* process_uploaded_file_once makes, and the yearly workbooks on the USB    *)
(* drive.  주문일시 is jumun_ilsi, 수취인주소 suchwiin_juso, 연도 yeondo.    *)

\* a 주문일시 cell: a Timestamp, a text pd.to_datetime parses, a text it
\* coerces to NaT, an empty cell; EmptyText is the '' default of row.get
Timestamp(year, t) == [kind |-> "timestamp", year |-> year, t |-> t]
DateText(year, t) == [kind |-> "text", year |-> year, t |-> t]
BadText == [kind |-> "bad_text", year |-> 0, t |-> 0]
NaT == [kind |-> "nan", year |-> 0, t |-> 0]
EmptyText == [kind |-> "text_empty", year |-> 0, t |-> 0]

TimeCells == {Timestamp(2024, 1), Timestamp(2025, 1), DateText(2024, 2), BadText, NaT}

\* a row of the uploaded workbook: the columns of Row and 주문일시, 수취인주소
UploadedRow(order_date, option) ==
    [sangpum_ireum |-> TagSujeonggwa, opsyeon_ireum |-> option,
     sangpum_suryang |-> IntCell(1), suchwiin_ireum |-> "kim",
     jumunja_ireum |-> "choi", jumunja_jeonhwabeonho1 |-> "010-1234-5678",
     jumun_ilsi |-> order_date, suchwiin_juso |-> "seoul"]

UploadedRows ==
    {UploadedRow(c, o) : c \in TimeCells, o \in {OptSikhye1L, OptSikhye200ml}}

safe_columns ==
    {"sangpum_ireum", "opsyeon_ireum", "sangpum_suryang", "suchwiin_ireum",
     "jumunja_ireum", "jumunja_jeonhwabeonho1"}

\* sanitize_data: df[available_columns].copy()
sanitize_data(d) ==
    [i \in 1..Len(d) |-> [c \in DOMAIN d[i] \cap safe_columns |-> d[i][c]]]

\* row.get(column, default)
RowGet(row, column, default) ==
    IF column \in DOMAIN row THEN row[column] ELSE default

\* the row is not skipped: order_datetime is a datetime
HasOrderDatetime(row) ==
    RowGet(row, "jumun_ilsi", EmptyText).kind \in {"timestamp", "text"}

\* customer_order, its 주문일시 being order_datetime.strftime(...)
customer_order_of(row) ==
    LET order_datetime == RowGet(row, "jumun_ilsi", EmptyText) IN
    [jumun_ilsi |-> <<order_datetime.year, order_datetime.t>>,
     sangpum_ireum |-> RowGet(row, "sangpum_ireum", <<>>),
     opsyeon_ireum |-> RowGet(row, "opsyeon_ireum", <<>>),
     jumunja_ireum |-> RowGet(row, "jumunja_ireum", ""),
     suchwiin_ireum |-> RowGet(row, "suchwiin_ireum", ""),
     yeondo |-> order_datetime.year]

\* extract_customer_order_from_shipment(df), for the first n rows
RECURSIVE extract_customer_order_from_shipment(_, _)
extract_customer_order_from_shipment(d, n) ==
    IF n = 0 THEN <<>>
    ELSE extract_customer_order_from_shipment(d, n - 1)
            \o (IF HasOrderDatetime(d[n]) THEN <<customer_order_of(d[n])>> ELSE <<>>)

\* the orders of one year, in their order
OrdersOfYear(customer_orders, year) ==
    SelectSeq(customer_orders, LAMBDA o : o.yeondo = year)

\* the keys of orders_by_year in insertion order
RECURSIVE YearsOf(_, _)
YearsOf(customer_orders, n) ==
    IF n = 0 THEN <<>>
    ELSE LET before == YearsOf(customer_orders, n - 1)
             year == customer_orders[n].yeondo
         IN  IF \E i \in 1..Len(before) : before[i] = year
             THEN before ELSE Append(before, year)

\* a workbook of the USB drive
NoFile == [exists |-> FALSE, rows |-> <<>>]
Years == {2024, 2025}

\* to_excel and read_excel on a cell: an empty string comes back as NaN
AsStored(order) ==
    [order EXCEPT !.jumunja_ireum = IF @ = "" THEN NaNShared ELSE @,
                  !.suchwiin_ireum = IF @ = "" THEN NaNShared ELSE @,
                  !.sangpum_ireum = IF @ = <<>> THEN NaN ELSE @]

\* the four comparisons of check_duplicate_orders (str(NaN) is 'nan')
SameOrder(new_order, existing_row) ==
    /\ new_order.jumun_ilsi = existing_row.jumun_ilsi
    /\ new_order.jumunja_ireum = existing_row.jumunja_ireum
    /\ new_order.sangpum_ireum = existing_row.sangpum_ireum
    /\ new_order.suchwiin_ireum = existing_row.suchwiin_ireum

\* check_duplicate_orders: the new orders no row of the workbook equals
RECURSIVE check_duplicate_orders(_, _)
check_duplicate_orders(new_orders, existing_df) ==
    IF existing_df = <<>> THEN new_orders
    ELSE IF new_orders = <<>> THEN <<>>
    ELSE LET new_order == new_orders[1]
             is_duplicate ==
                 \E i \in 1..Len(existing_df) : SameOrder(new_order, existing_df[i])
         IN  (IF is_duplicate THEN <<>> ELSE <<new_order>>)
                \o check_duplicate_orders(Tail(new_orders), existing_df)

\* what stops append_to_usb_customer_file: no USB drive, a workbook that
\* cannot be read, one that cannot be written
Outcomes == {"ok", "no_usb", "read_error", "write_error"}

\* append_to_usb_customer_file(customer_orders, year): the workbook of the
\* year afterwards, the value returned, the number of rows added
append_to_usb_customer_file(file, customer_orders, outcome) ==
    IF outcome = "no_usb" THEN [file |-> file, returned |-> FALSE, added |-> 0]
    ELSE LET created == [exists |-> TRUE, rows |-> file.rows]
             unique_orders == check_duplicate_orders(customer_orders, created.rows)
         IN  IF outcome = "read_error"
             THEN [file |-> created, returned |-> FALSE, added |-> 0]
             ELSE IF unique_orders = <<>>
             THEN [file |-> created, returned |-> TRUE, added |-> 0]
             ELSE IF outcome = "write_error"
             THEN [file |-> created, returned |-> FALSE, added |-> 0]
             ELSE [file |-> [exists |-> TRUE,
                             rows |-> created.rows
                                        \o [i \in 1..Len(unique_orders) |->
                                               AsStored(unique_orders[i])]],
                   returned |-> TRUE, added |-> Len(unique_orders)]

\* safe_process_all:  for year, orders in orders_by_year.items(), from the
\* n-th year on
RECURSIVE AppendYears(_, _, _, _, _)
AppendYears(files, calls, customer_orders, years, outcomes) ==
    IF years = <<>> THEN [files |-> files, calls |-> calls]
    ELSE LET year == years[1]
             year_orders == OrdersOfYear(customer_orders, year)
             r == append_to_usb_customer_file(files[year], year_orders, outcomes[year])
         IN  AppendYears([files EXCEPT ![year] = r.file],
                         Append(calls, [year |-> year, orders |-> year_orders,
                                        returned |-> r.returned, added |-> r.added]),
                         customer_orders, Tail(years), outcomes)

\* one upload: process_uploaded_file_once and the customer history stage of
\* safe_process_all
CustomerStage ==
    /\ pc = "customer"
    /\ df' = sanitize_data(uploaded_file)
    /\ LET df_customer == df'
           customer_orders ==
               extract_customer_order_from_shipment(df_customer, Len(df_customer))
       IN  \E outcomes \in [Years -> Outcomes] :
              LET r == AppendYears(usb_file, append_calls, customer_orders,
                                   YearsOf(customer_orders, Len(customer_orders)),
                                   outcomes)
              IN  /\ usb_file' = r.files
                  /\ append_calls' = r.calls
    /\ pc' = "customer_done"
    /\ UNCHANGED <<uploaded_file, index, results, orders, total_boxes, review_orders,
                   final_product, total_quantity, key, boxVars, textVars, storeVars>>

InitCustomer ==
    /\ uploaded_file \in SeqsUpTo(UploadedRows, MaxRows) \ {<<>>}
    /\ usb_file = [y \in Years |-> NoFile]
    /\ append_calls = <<>>
    /\ pc = "customer"
    /\ UploadIdle
    /\ BoxIdle
    /\ TextIdle
    /\ StoreIdle

NextCustomer == CustomerStage

SpecCustomer == InitCustomer /\ [][NextCustomer]_vars

\* the customer orders of rows that carry 주문일시, and of such rows of a
\* workbook without the column 주문자이름
CustomerOrders ==
    LET rows == {r \in UploadedRows : HasOrderDatetime(r) /\ r.jumun_ilsi.year = 2024}
    IN  {customer_order_of(r) : r \in rows}
        \cup {[customer_order_of(r) EXCEPT !.jumunja_ireum = ""] : r \in rows}

\* one call append_to_usb_customer_file(customer_orders, 2024)
AppendCall ==
    /\ pc = "append"
    /\ Len(append_calls) < MaxAppends
    /\ \E customer_orders \in SeqsUpTo(CustomerOrders, MaxBatch) \ {<<>>},
          outcome \in Outcomes :
          LET r == append_to_usb_customer_file(usb_file[2024], customer_orders, outcome)
          IN  /\ usb_file' = [usb_file EXCEPT ![2024] = r.file]
              /\ append_calls' = Append(append_calls,
                                        [year |-> 2024, orders |-> customer_orders,
                                         returned |-> r.returned, added |-> r.added])
    /\ UNCHANGED <<uploaded_file, pc, uploadVars, boxVars, textVars, storeVars>>

InitAppend ==
    /\ uploaded_file = <<>>
    /\ usb_file = [y \in Years |-> NoFile]
    /\ append_calls = <<>>
    /\ pc = "append"
    /\ UploadIdle
    /\ BoxIdle
    /\ TextIdle
    /\ StoreIdle

NextAppend == AppendCall

SpecAppend == InitAppend /\ [][NextAppend]_vars

----------------------------------------------------------------------------
(* save_to_github as a function of what encrypt_results and the API answer *)

\* a status code that is neither 200, 201, 404 nor 409
ServerError == 500

\* a requests.exceptions.RequestException instead of a response
RequestException == 0

\* what save_to_github sends and waits for: a GET, a PUT whose payload carries
\* sha (NoSha: no "sha" in the payload), a time.sleep
Get_(status) == [op |-> "GET", n |-> 0, status |-> status]
Put_(sha, status) == [op |-> "PUT", n |-> sha, status |-> status]
Sleep_(seconds) == [op |-> "sleep", n |-> seconds, status |-> 0]

\* 2 ** attempt
RECURSIVE Pow2(_)
Pow2(n) == IF n = 0 THEN 1 ELSE 2 * Pow2(n - 1)

\* what the GET of a file with this sha and the PUT can be answered
GetAnswers(sha) ==
    {RequestException, ServerError, IF sha = NoSha THEN 404 ELSE 200}
PutAnswers == {RequestException, ServerError, 409, 200, 201}
Responses(sha) == [1..MaxRetries -> [get : GetAnswers(sha), put : PutAnswers]]

\* variant: the wait follows every failed attempt
RECURSIVE save_attempts_AlwaysSleep(_, _, _)
save_attempts_AlwaysSleep(file_sha, responses, attempt) ==
    IF attempt = MaxRetries THEN [ret |-> FALSE, requests |-> <<>>]
    ELSE LET r == responses[attempt + 1]
             sha == IF r.get = 200 THEN file_sha ELSE NoSha
             wait == <<Sleep_(Pow2(attempt))>>
             rest == save_attempts_AlwaysSleep(file_sha, responses, attempt + 1)
         IN  IF r.get = RequestException
             THEN [ret |-> rest.ret,
                   requests |-> <<Get_(r.get)>> \o wait \o rest.requests]
             ELSE IF r.put \in {200, 201}
             THEN [ret |-> TRUE, requests |-> <<Get_(r.get), Put_(sha, r.put)>>]
             ELSE [ret |-> rest.ret,
                   requests |-> <<Get_(r.get), Put_(sha, r.put)>> \o wait
                                    \o rest.requests]

\* save_to_github: the loop "for attempt in range(max_retries)" from attempt
\* on, file_sha being the sha of the stored file: the value returned and the
\* requests and sleeps made
RECURSIVE save_attempts(_, _, _)
save_attempts(file_sha, responses, attempt) ==
    IF attempt = MaxRetries THEN [ret |-> FALSE, requests |-> <<>>]
    ELSE LET r == responses[attempt + 1]
             sha == IF r.get = 200 THEN file_sha ELSE NoSha
             wait == IF attempt < MaxRetries - 1
                     THEN <<Sleep_(Pow2(attempt))>> ELSE <<>>
             rest == save_attempts(file_sha, responses, attempt + 1)
         IN  IF r.get = RequestException
             THEN [ret |-> rest.ret,
                   requests |-> <<Get_(r.get)>> \o wait \o rest.requests]
             ELSE IF r.put \in {200, 201}
             THEN [ret |-> TRUE, requests |-> <<Get_(r.get), Put_(sha, r.put)>>]
             ELSE [ret |-> rest.ret,
                   requests |-> <<Get_(r.get), Put_(sha, r.put)>> \o wait
                                    \o rest.requests]

\* save_to_github(data, file_path, ...): False before any request when
\* encrypt_results returns None, the retry loop otherwise
save_to_github(file_sha, encrypted, responses) ==
    IF ~encrypted THEN [ret |-> FALSE, requests |-> <<>>]
    ELSE save_attempts(file_sha, responses, 0)

\* one call save_shipment_data(data) in a session, start to return
SaveRun(s) ==
    /\ sess[s].pc = "idle"
    /\ \E data \in ShipmentAggregates \ {EmptyDict}, encrypted \in BOOLEAN,
          responses \in Responses(store[ShipmentFile].sha) :
          LET r == save_to_github(store[ShipmentFile].sha, encrypted, responses)
          IN  /\ sess' = [sess EXCEPT
                             ![s].encrypted_data = IF encrypted THEN "data" ELSE "None",
                             ![s].requests = r.requests,
                             ![s].save_success = IF r.ret THEN "True" ELSE "False",
                             ![s].pc = "save_returned"]
              /\ save_calls' = Append(save_calls, [file |-> ShipmentFile,
                                                   data |-> data, ok |-> r.ret])
              /\ store' = IF r.ret
                          THEN [store EXCEPT ![ShipmentFile] =
                                   [sha |-> @.sha + 1, data |-> data]]
                          ELSE store
    /\ UNCHANGED <<now, pc, uploadVars, boxVars, textVars, customerVars>>

InitSave == InitStock
NextSave == \E s \in Sessions : SaveRun(s)
SpecSave == InitSave /\ [][NextSave]_vars

----------------------------------------------------------------------------
(* load_from_github as a function of what the API answers *)

\* a GET of load_from_github and whether its body carried 'encrypted_data'
Got_(status, encrypted) ==
    [op |-> "GET", n |-> IF encrypted THEN 1 ELSE 0, status |-> status]

\* what one GET of the file can be answered: no response, a status other than
\* 200, or 200 with a package whose 'encrypted_data' may be missing and may
\* not decrypt (decrypt_results then returns {})
LoadAnswers ==
    [status : {RequestException, ServerError, 404}, encrypted : {FALSE},
     decrypts : {FALSE}, last_update : {None}]
    \cup {r \in [status : {200}, encrypted : BOOLEAN, decrypts : BOOLEAN,
                 last_update : 1..MaxClock] : r.decrypts => r.encrypted}
LoadResponses == [1..MaxRetries -> LoadAnswers]

\* variant: a missing file is asked for again
RECURSIVE load_from_github_Retry404(_, _, _)
load_from_github_Retry404(file_data, responses, attempt) ==
    IF attempt = MaxRetries
    THEN [results |-> EmptyDict, last_update |-> None, requests |-> <<>>]
    ELSE LET r == responses[attempt + 1]
             wait == IF attempt < MaxRetries - 1 THEN <<Sleep_(1)>> ELSE <<>>
             rest == load_from_github_Retry404(file_data, responses, attempt + 1)
         IN  IF r.status = 200 /\ r.encrypted
             THEN [results |-> IF r.decrypts THEN file_data ELSE EmptyDict,
                   last_update |-> r.last_update,
                   requests |-> <<Got_(200, TRUE)>>]
             ELSE [results |-> rest.results,
                   last_update |-> rest.last_update,
                   requests |-> <<Got_(r.status, FALSE)>> \o wait \o rest.requests]

\* load_from_github(file_path) from attempt on, file_data being the results
\* encrypted in the stored package: the pair returned and the requests and
\* sleeps made
RECURSIVE load_from_github(_, _, _)
load_from_github(file_data, responses, attempt) ==
    IF attempt = MaxRetries
    THEN [results |-> EmptyDict, last_update |-> None, requests |-> <<>>]
    ELSE LET r == responses[attempt + 1]
             wait == IF attempt < MaxRetries - 1 THEN <<Sleep_(1)>> ELSE <<>>
             rest == load_from_github(file_data, responses, attempt + 1)
         IN  IF r.status = 200 /\ r.encrypted
             THEN [results |-> IF r.decrypts THEN file_data ELSE EmptyDict,
                   last_update |-> r.last_update,
                   requests |-> <<Got_(200, TRUE)>>]
             ELSE IF r.status = 404
             THEN [results |-> EmptyDict, last_update |-> None,
                   requests |-> <<Got_(404, FALSE)>>]
             ELSE [results |-> rest.results,
                   last_update |-> rest.last_update,
                   requests |-> <<Got_(r.status, FALSE)>> \o wait \o rest.requests]

\* one call load_shipment_data() in a session, start to return
LoadRun(s) ==
    /\ sess[s].pc = "idle"
    /\ \E responses \in LoadResponses :
          LET r == load_from_github(store[ShipmentFile].data, responses, 0)
          IN  sess' = [sess EXCEPT ![s].shipment_results = r.results,
                                   ![s].last_update = r.last_update,
                                   ![s].requests = r.requests,
                                   ![s].pc = "load_returned"]
    /\ UNCHANGED <<save_calls, store, now, pc, uploadVars, boxVars, textVars, customerVars>>

InitLoad == InitStock
NextLoad == \E s \in Sessions : LoadRun(s)
SpecLoad == InitLoad /\ [][NextLoad]_vars

----------------------------------------------------------------------------
(* Claims about the admin mode *)

\* C21: a session is inside a save to the remote store only while its
\* admin_mode is true (with admin_mode false only viewing is available), and
\* admin_mode is true only after a login with the configured admin password
\* and false again after logout.
C21_WritesOnlyInAdminMode ==
    \A s \in Sessions :
        /\ sess[s].pc \in {"save_get", "save_put"} => sess[s].admin_mode
        /\ sess[s].admin_mode => sess[s].admin_password = ConfiguredPassword

----------------------------------------------------------------------------
(* Claims about save_to_github and load_from_github *)

\* the requests of a call
Requested(s) == sess[s].requests
GetsOf(log) == {i \in 1..Len(log) : log[i].op = "GET"}
PutsOf(log) == {i \in 1..Len(log) : log[i].op = "PUT"}
SleepsOf(log) == {i \in 1..Len(log) : log[i].op = "sleep"}

\* C22: save_to_github returns a boolean: with encryption failing it sends no
\* request and returns False; otherwise it makes at most 3 attempts, each a
\* GET followed by a PUT that carries the sha iff the GET was answered 200; it
\* returns True at the first PUT answered 200 or 201 and sends nothing after
\* it; it sleeps 2^attempt seconds between attempts only, not after the last;
\* it returns False after the third failed attempt.
C22_SaveToGithubAttempts ==
    \A s \in Sessions :
        sess[s].pc = "save_returned" =>
            LET log == Requested(s)
                ret == sess[s].save_success
            IN  /\ ret \in {"True", "False"}
                /\ sess[s].encrypted_data = "None" => (log = <<>> /\ ret = "False")
                /\ Cardinality(GetsOf(log)) <= 3
                /\ \A i \in PutsOf(log) :
                      /\ i > 1 /\ log[i - 1].op = "GET"
                      /\ (log[i].n # NoSha) <=> (log[i - 1].status = 200)
                      /\ log[i].status \in {200, 201} <=> (i = Len(log) /\ ret = "True")
                /\ ret = "True" => (log # <<>> /\ log[Len(log)].op = "PUT")
                /\ \A i \in SleepsOf(log) :
                      /\ 1 < i /\ i < Len(log)
                      /\ log[i - 1].op # "sleep" /\ log[i + 1].op = "GET"
                      /\ log[i].n = Pow2(Cardinality({j \in GetsOf(log) : j < i}) - 1)
                /\ \A i \in GetsOf(log) : i > 1 => log[i - 1].op = "sleep"
                /\ (ret = "False" /\ sess[s].encrypted_data = "data")
                      => /\ Cardinality(GetsOf(log)) = 3
                         /\ log[Len(log)].op # "sleep"

\* C22 witness: two failed attempts, one without PUT, then a PUT answered 201:
\* the waits are 1 and 2 seconds and True is returned
C22_Witness ==
    /\ sess[1].pc = "save_returned"
    /\ sess[1].save_success = "True"
    /\ Requested(1) = <<Get_(RequestException), Sleep_(1),
                        Get_(404), Put_(NoSha, ServerError), Sleep_(2),
                        Get_(404), Put_(NoSha, 201)>>

\* C22 witness: three failed attempts of a file that exists
C22_WitnessFalse ==
    /\ sess[1].pc = "save_returned"
    /\ sess[1].save_success = "False"
    /\ Requested(1) = <<Get_(200), Put_(1, 409), Sleep_(1),
                        Get_(200), Put_(1, 409), Sleep_(2),
                        Get_(ServerError), Put_(NoSha, ServerError)>>

\* the result a caller gets for a file that does not exist
FileDoesNotExist == [results |-> EmptyDict, last_update |-> None]

\* C23: load_from_github returns a pair after at most 3 GETs: a 404 returns
\* ({}, None) at once; a 200 carrying encrypted data returns the decrypted
\* results and the stored last_update at once; every other answer is followed
\* by a retry, and after the third unsuccessful attempt the pair is ({}, None),
\* the same as for a file that does not exist.
C23_LoadFromGithubAttempts ==
    \A s \in Sessions :
        sess[s].pc = "load_returned" =>
            LET log == Requested(s)
                last == log[Len(log)]
                pair == [results |-> sess[s].shipment_results,
                         last_update |-> sess[s].last_update]
                final(i) == log[i].status = 404 \/ (log[i].status = 200 /\ log[i].n = 1)
            IN  /\ Cardinality(GetsOf(log)) \in 1..3
                /\ PutsOf(log) = {}
                /\ \A i \in GetsOf(log) : final(i) => i = Len(log)
                /\ \A i \in GetsOf(log) :
                      (~final(i) /\ Cardinality({j \in GetsOf(log) : j <= i}) < 3)
                          => (i + 2 <= Len(log) /\ log[i + 1] = Sleep_(1)
                              /\ log[i + 2].op = "GET")
                /\ last.op = "GET"
                /\ last.status = 404 => pair = FileDoesNotExist
                /\ (last.status = 200 /\ last.n = 1)
                      => /\ pair.results \in {store[ShipmentFile].data, EmptyDict}
                         /\ pair.last_update \in 1..MaxClock
                /\ ~final(Len(log))
                      => /\ Cardinality(GetsOf(log)) = 3
                         /\ pair = FileDoesNotExist

\* C23 witness: a RequestException, a 200 without 'encrypted_data' and a 500:
\* three GETs, two sleeps, and the pair of a missing file although the file
\* exists
C23_Witness ==
    /\ sess[1].pc = "load_returned"
    /\ store[ShipmentFile].data # EmptyDict
    /\ Requested(1) = <<Got_(RequestException, FALSE), Sleep_(1),
                        Got_(200, FALSE), Sleep_(1), Got_(ServerError, FALSE)>>
    /\ sess[1].shipment_results = EmptyDict
    /\ sess[1].last_update = None

\* C23 witness: the second GET is answered 200 with data that decrypts
C23_WitnessLoaded ==
    /\ sess[1].pc = "load_returned"
    /\ Requested(1) = <<Got_(ServerError, FALSE), Sleep_(1), Got_(200, TRUE)>>
    /\ sess[1].shipment_results = store[ShipmentFile].data
    /\ sess[1].shipment_results # EmptyDict
    /\ sess[1].last_update = 1

----------------------------------------------------------------------------
(* Claims about the two aggregates of one upload *)

\* the key under which the box view counts shipment key k: a key ending in
\* " 200ml" becomes the key of the same category ending in " 240ml"
MergedKey(k) ==
    LET tail == <<" ">> \o Cap200ml
        at == Len(k) - Len(tail) + 1
    IN  IF StartsAt(k, at, tail)
        THEN SubSeq(k, 1, at - 1) \o <<" ">> \o Cap240ml
        ELSE k

\* the shipment aggregate d with every 200ml key merged into its 240ml key
Merged(d) ==
    [t \in {MergedKey(k) : k \in DOMAIN d} |->
        SumOver(d, {k \in DOMAIN d : MergedKey(k) = t})]

\* the quantities of key k summed over the first n recipients of os
RECURSIVE OverRecipients(_, _, _)
OverRecipients(os, n, k) ==
    IF n = 0 THEN 0
    ELSE OverRecipients(os, n - 1, k) + Get(os[n].products, k, 0)

\* the grouped orders summed over all recipients, per product key
GroupedTotals(os) ==
    [k \in UNION {DOMAIN os[p].products : p \in 1..Len(os)} |->
        OverRecipients(os, Len(os), k)]

\* C24: once group_orders_by_recipient has returned, its quantities summed over
\* all recipients per product key are the process_unified_file aggregate of the
\* same rows with every '<category> 200ml' key merged into '<category> 240ml',
\* and the grand totals of the two views are equal.
C24_AggregatesAgree ==
    pc \in {"box", "done"} =>
        /\ GroupedTotals(orders) = Merged(results)
        /\ SumValues(GroupedTotals(orders)) = SumValues(results)

\* C24 witness: the upload had a 200ml row, whose key only the shipment
\* aggregate keeps, and two recipients with rows of one product key
C24_Witness ==
    /\ pc = "box"
    /\ \E k \in DOMAIN results :
          /\ MergedKey(k) # k
          /\ MergedKey(k) \in DOMAIN GroupedTotals(orders)
          /\ k \notin DOMAIN GroupedTotals(orders)
    /\ \E p, q \in 1..Len(orders) :
          p # q /\ DOMAIN orders[p].products \cap DOMAIN orders[q].products # {}

----------------------------------------------------------------------------
(* Claims about repeated reflections *)

\* the number of saves among the first n calls that returned True
RECURSIVE Successes(_)
Successes(n) ==
    IF n = 0 THEN 0
    ELSE Successes(n - 1) + (IF save_calls[n].ok THEN 1 ELSE 0)

\* C25: the reflection is not guarded against repetition: starting from stock s
\* for a key with shipment quantity d, after k successful reflections with no
\* upload or manual save in between the stored quantity is max(0, s - k*d) and
\* the history has grown by k entries.
C25_RepeatedReflection ==
    LET history == EntriesOf(store[StockFile].data)
        k == Successes(Len(save_calls))
        shipment == store[ShipmentFile].data
    IN  /\ Len(history) = 1 + k
        /\ \A product_key \in DOMAIN shipment :
              LET s == history[Len(history)].ipryeogyong[input_key[product_key]]
                  d == shipment[product_key]
              IN  history[1].ipryeogyong[input_key[product_key]] = Max(0, s - k * d)

----------------------------------------------------------------------------
(* Claims about keys without capacity *)

\* the product keys that are a category alone, without a capacity part
BareKeys == {Sikhye, DanhobakSikhye, Sujeonggwa, PlainSsalYogurt, Gita}

\* the products of the recipient handled last, without the bare keys
WithCapacity ==
    [k \in DOMAIN order_products \ BareKeys |-> order_products[k]]

\* C26: items without a capacity do not influence the box allocation: for every
\* recipient the vector of get_product_quantities and the box decision are
\* those of the recipient's products without the keys that have no capacity
\* part.
C26_BareKeysIgnored ==
    (pc \in {"box", "done"} /\ index > 0) =>
        /\ quantities = get_product_quantities(WithCapacity)
        /\ box_result = calculate_box_for_order(get_product_quantities(WithCapacity))

\* C26 witness: a recipient with a quantity under the bare key 기타 got a box,
\* and the vector adds up to less than the recipient's total quantity
C26_Witness ==
    /\ pc = "box"
    /\ index > 0
    /\ Gita \in DOMAIN order_products
    /\ order_products[Gita] > 0
    /\ box_result \in Boxes
    /\ SumValues(quantities) > 0
    /\ SumValues(quantities) < SumValues(order_products)

----------------------------------------------------------------------------
(* Claims about passed-through capacity tokens *)

\* C27: get_product_quantities adds a key's quantity to a bucket only if the
\* key's capacity part is exactly that bucket's capacity (1.5L, 1L, 500ml,
\* 240ml) or exactly 200ml, counted as 240ml; a key with any other capacity
\* token the parser and standardize_capacity can produce is counted in no
\* bucket.
C27_OnlyExactCapacityCounted ==
    pc = "token_returned" =>
        IF product \in Capacities
        THEN quantities = Put(EmptyDict, product, total_quantity)
        ELSE IF product = Cap200ml
        THEN quantities = Put(EmptyDict, Cap240ml, total_quantity)
        ELSE quantities = EmptyDict

----------------------------------------------------------------------------
(* Claims about the two stored aggregates of an upload *)

\* the upload replaced the stored file: a save of it returned True
Replaced(file_path) ==
    \E n \in 1..Len(save_calls) : save_calls[n].file = file_path /\ save_calls[n].ok

\* C29: after every run of safe_process_all, whatever step fails, the stored
\* shipment aggregate and the stored box aggregate come from the same uploaded
\* file: the upload replaced both or neither.
C29_BothAggregatesOrNeither ==
    pc \in {"done", "no_box", "box_failed"} =>
        (Replaced(ShipmentFile) <=> Replaced(BoxFile))

----------------------------------------------------------------------------
(* Claims about the customer order history *)

\* the number of orders passed to append_to_usb_customer_file for the year in
\* the first n calls
RECURSIVE OrdersPassed(_, _)
OrdersPassed(year, n) ==
    IF n = 0 THEN 0
    ELSE OrdersPassed(year, n - 1)
            + (IF append_calls[n].year = year THEN Len(append_calls[n].orders) ELSE 0)

\* the rows of the uploaded workbook whose 주문일시 is a datetime of the year
RowsOfYear(year) ==
    {i \in 1..Len(uploaded_file) :
        /\ uploaded_file[i].jumun_ilsi.kind \in {"timestamp", "text"}
        /\ uploaded_file[i].jumun_ilsi.year = year}

\* C28: in the upload pipeline every row of the uploaded file with a valid
\* 주문일시 yields exactly one customer order record, grouped by its year and
\* passed to append_to_usb_customer_file; rows without a parseable timestamp
\* are skipped.
C28_OneRecordPerDatedRow ==
    pc = "customer_done" =>
        \A year \in Years :
            /\ OrdersPassed(year, Len(append_calls)) = Cardinality(RowsOfYear(year))
            /\ \A n \in 1..Len(append_calls) :
                  \A i \in 1..Len(append_calls[n].orders) :
                      append_calls[n].orders[i].yeondo = append_calls[n].year

\* the four compared fields of a row of the workbook, as strings
OrderKey(row) ==
    <<row.jumun_ilsi, row.jumunja_ireum, row.sangpum_ireum, row.suchwiin_ireum>>

\* C30: after any sequence of append_to_usb_customer_file calls for one year
\* from a newly created workbook, no two rows of the workbook have the same
\* (주문일시, 주문자이름, 상품이름, 수취인이름) as strings, and appending the
\* batch of the call before a second time adds no row.
C30_NoDuplicateRows ==
    pc = "append" =>
        /\ \A i, j \in 1..Len(usb_file[2024].rows) :
              i # j => OrderKey(usb_file[2024].rows[i]) # OrderKey(usb_file[2024].rows[j])
        /\ \A n \in 2..Len(append_calls) :
              (append_calls[n].orders = append_calls[n - 1].orders
                    /\ append_calls[n - 1].returned /\ append_calls[n].returned)
                  => append_calls[n].added = 0
=============================================================================
